---- MODULE Spec2Model ----
(***************************************************************************)
(* A model of the recommendation subsystem of the shop backend:            *)
(*   - the serving-time scorer and the model singleton (api_recommend.py)  *)
(*   - the candidate blender (retrieval.py)                                *)
(*   - the feature builder and the training-data windows (features.py,     *)
(*     create_training_data.py)                                            *)
(*   - the activity-based personalizer over cart, wishlist and orders      *)
(*     (personalized_recommend.py, api_cart.py, api_wishlist.py,           *)
(*     api_orders.py)                                                      *)
(* Each component has its own specification over the shared variables.     *)
(***************************************************************************)
EXTENDS Integers, Sequences, FiniteSets, TLC

(***************************************************************************)
(* Bounds of the model.                                                    *)
(***************************************************************************)
NumServed == 2        \* article ids of the served candidate tables
MaxCand == 2          \* rows (and scores, and k) of a served candidate table
MaxLoads == 2         \* successful joblib.load calls in one run
MaxImpressions == 2   \* impression rows the interaction table may hold
MaxTxns == 2          \* rows of the transaction log
MaxQty == 2           \* quantity of a cart row and of a purchase
MaxOrders == 1        \* rows of the Order table
MaxSampleRows == 5    \* rows of a table handed to sample_negatives
MaxValRows == 3       \* rows of a validation table and the largest K
MaxCoefficient == 2   \* magnitude of a coefficient of time_decay_score
NumThreads == 2       \* concurrent requests missing one cache key
BulkCount == 21       \* catalog rows of the one large category

ServedArticles == 1..NumServed

VARIABLES
    \* ---- api_recommend.py: module globals and the /reload handler
    model,            \* 0 = None, n = the object returned by the n-th load
    model_loaded_at,  \* 0 = None, n = datetime.now() taken by the n-th load
    nloads,           \* loads performed so far
    rl,               \* reload_model: its position and returned status
    \* ---- api_recommend.py: get_recommendation_health
    h,                \* the response being built, with what each read saw
    \* ---- api_recommend.py: generate_recommendations and its endpoint
    g,                \* the request: its position, arguments and locals
    candPool,         \* the tables get_candidates_for_user may return
    served,           \* the Product rows the scorer looks up (article ids)
    impressions,      \* number of impression rows in UserInteraction
    \* ---- the processed dataset and the cache directory
    transactions,     \* processed_transactions.csv: a bag of purchase rows
    customers,        \* processed_customers.csv: age_bin per customer
    articles,         \* processed_articles.csv: the article metadata rows
    popCache,         \* datasets/cache/popular_age_<bin>_7d.csv per age bin
    itemCache,        \* datasets/cache/item_features_7d.csv and _30d.csv
    \* ---- retrieval.py: the last call of get_candidates_for_user
    cand,
    \* ---- the offline jobs and their files
    candFile,         \* datasets/candidates/<user>.csv
    feat,             \* datasets/features/features_all.csv
    train,            \* datasets/train/train_pairs.csv and val_pairs.csv
    \* ---- the shop database (db.py) and the For You endpoint
    products,         \* Product rows
    users,            \* User rows: preferred_categories per user id
    cart,             \* CartItem rows
    wishlist,         \* WishlistItem rows
    orders,           \* Order rows, each with its OrderItem rows
    purchases,        \* number of "purchase" rows in UserInteraction
    foryou,           \* the For You response the client is reading
    served_similar,   \* some earlier For You request took the activity path
    \* ---- the functions checked on their own
    pure,             \* a function, its arguments and, once applied, its result
    \* ---- concurrent requests missing one cache key
    race              \* the cache key and each request's position and table

serveVars == <<model, model_loaded_at, nloads, rl, h, g, candPool, served,
               impressions>>

\* everything outside api_recommend.py
dataVars == <<transactions, customers, articles, popCache, itemCache>>

jobVars == <<candFile, feat, train>>

storeVars == <<products, users, cart, wishlist, orders, purchases, foryou,
               served_similar>>

notServe == <<dataVars, cand, jobVars, storeVars, pure, race>>

notData == <<serveVars, cand, jobVars, storeVars, pure, race>>

notStore == <<serveVars, dataVars, cand, jobVars, pure, race>>

notPure == <<serveVars, dataVars, cand, jobVars, storeVars, race>>

\* No function is being applied
Unapplied == [fn |-> "none"]

\* No request is racing for a cache key
NoRace == [age_bin |-> "none", th |-> <<>>]

vars == <<serveVars, notServe>>

(***************************************************************************)
(* Helpers on sequences.                                                   *)
(***************************************************************************)
Range(s) == {s[i] : i \in 1..Len(s)}

Min(a, b) == IF a <= b THEN a ELSE b

Max(a, b) == IF a >= b THEN a ELSE b

Head_n(s, n) == SubSeq(s, 1, Min(n, Len(s)))

Perms(s) ==
    {p \in [1..Len(s) -> Range(s)] : \A x \in Range(s) :
        Cardinality({i \in 1..Len(s) : p[i] = x}) =
        Cardinality({i \in 1..Len(s) : s[i] = x})}

(***************************************************************************)
(* The processed dataset                                                   *)
(***************************************************************************)
Users == {1, 2}
Items == {1, 2}
Dates == {0, 2, 9}              \* t_dat, in days
AgeBins == {"18-25", "26-35"}

\* A row of the log; equal purchases are told apart by their copy number.
TxnRows == [customer_id : Users, article_id : Items, t_dat : Dates,
            copy : 1..(MaxTxns + 1)]

\* customers[u] is the customer's age_bin, "nan" for a missing age_bin, or
\* "absent" when the customer table has no row for u.
CustomerTables == [Users -> AgeBins \cup {"nan", "absent"}]

\* The customer tables the model starts from: one cohort, two cohorts, a
\* customer with a missing age_bin, a customer unknown to the table.
CustomerChoices ==
    {(1 :> "18-25" @@ 2 :> "18-25"), (1 :> "18-25" @@ 2 :> "26-35"),
     (1 :> "nan" @@ 2 :> "18-25"), (1 :> "absent" @@ 2 :> "18-25")}

\* transactions_df['t_dat'].max(); -1 stands for NaT (empty log)
MaxDate(T) == IF T = {} THEN -1
              ELSE CHOOSE d \in {t.t_dat : t \in T} : \A t \in T : t.t_dat <= d

SetMax(S) == CHOOSE x \in S : \A y \in S : y <= x

SetMin(S) == CHOOSE x \in S : \A y \in S : x <= y

\* the log with one more purchase
Appended(T, k) ==
    LET n == Cardinality({t \in T : /\ t.customer_id = k.customer_id
                                    /\ t.article_id = k.article_id
                                    /\ t.t_dat = k.t_dat})
    IN T \cup {[customer_id |-> k.customer_id, article_id |-> k.article_id,
                 t_dat |-> k.t_dat, copy |-> n + 1]}

TxnKeys == [customer_id : Users, article_id : Items, t_dat : Dates]

\* The preprocessing job appends a purchase to the log.
AppendTransaction ==
    /\ Cardinality(transactions) < MaxTxns
    /\ \E k \in TxnKeys : transactions' = Appended(transactions, k)
    /\ UNCHANGED <<customers, articles, popCache, itemCache, notData>>

\* the logs of at most MaxTxns purchases
RECURSIVE LogOf(_)
LogOf(s) == IF s = << >> THEN {}
            ELSE Appended(LogOf(SubSeq(s, 1, Len(s) - 1)), s[Len(s)])

Logs == {LogOf(s) : s \in UNION {[1..n -> TxnKeys] : n \in 0..MaxTxns}}

\* processed_articles.csv: one row per article
ArticleRow(a) == [article_id |-> [a |-> a, int |-> FALSE], department_no |-> 10 + a, gender_tag |-> a % 3]

ArticleChoices == {{ArticleRow(a) : a \in S} : S \in {Items, Items \ {2}}}

\* the price column of the log: every purchase of an article costs the same
Price(a) == 10 * a

(***************************************************************************)
(* retrieval.py -- scoring primitives and retrieval rules                  *)
(***************************************************************************)

\* 1000 / sqrt(x) and 1000 * exp(-0.1 x) for x = 1..9, rounded
InvSqrtTable == <<1000, 707, 577, 500, 447, 408, 378, 354, 333>>
ExpTable == <<905, 819, 741, 670, 607, 549, 497, 449, 407>>

\* the default coefficients; c is in tenths
DecayA == 1
DecayB == 1
DecayC == 1
DecayD == 0

\* 1000 / sqrt(x) and 1000 * exp(-c x) in thousandths, for c = 0 and
\* c = 0.1; x = 0 stands for the 0.01 that replaces x <= 0
inv_sqrt(x) == IF x = 0 THEN 10000 ELSE InvSqrtTable[x]
exp_neg(c, x) == IF c = 0 THEN 1000 ELSE IF x = 0 THEN 999 ELSE ExpTable[x]

\* time_decay_score without the final max(0.0, score)
time_decay_score_unclamped(x, a, b, c, d) ==
    LET x1 == IF x <= 0 THEN 0 ELSE x
    IN a * inv_sqrt(x1) + b * exp_neg(c, x1) - d * 1000

\* time_decay_score in thousandths; a, b, d are whole numbers, c is 0 or one
\* tenth; x <= 0 is taken as 0.01
time_decay_score(x, a, b, c, d) ==
    LET x1 == IF x <= 0 THEN 0 ELSE x
        score == a * inv_sqrt(x1) + b * exp_neg(c, x1) - d * 1000
    IN Max(0, score)

\* article_id as a string (the processed tables) or as an integer (a table
\* read back from a cache CSV without astype(str))
StrId(a) == [a |-> a, int |-> FALSE]

IntId(a) == [a |-> a, int |-> TRUE]

\* recent_items keeping, per article, the score of the oldest purchase of
\* the window
recent_items_oldest(user_id, T, days, max_date) ==
    LET user_txns == {t \in T : t.customer_id = user_id}
        recent == {t \in user_txns : max_date - t.t_dat <= days}
    IN {[article_id |-> StrId(a),
         score |-> SetMin({time_decay_score(max_date - t.t_dat, DecayA, DecayB, DecayC, DecayD) :
                             t \in {r \in recent : r.article_id = a}})] :
          a \in {t.article_id : t \in recent}}

\* recent_items: the user's purchases of the last `days` days, the best
\* time-decay score per article
recent_items(user_id, T, days, max_date) ==
    LET user_txns == {t \in T : t.customer_id = user_id}
        recent == {t \in user_txns : max_date - t.t_dat <= days}
    IN {[article_id |-> StrId(a),
         score |-> SetMax({time_decay_score(max_date - t.t_dat, DecayA, DecayB, DecayC, DecayD) :
                             t \in {r \in recent : r.article_id = a}})] :
          a \in {t.article_id : t \in recent}}

\* value_counts().head(k) then count / max_count, in thousandths.  Ties at
\* the cut are taken in article order.
CountScores(rows, k) ==
    LET arts == {t.article_id : t \in rows}
        cnt(a) == Cardinality({t \in rows : t.article_id = a})
        kept == IF Cardinality(arts) <= k THEN arts
                ELSE CHOOSE S \in SUBSET arts :
                       /\ Cardinality(S) = k
                       /\ \A x \in S, y \in arts \ S :
                            cnt(x) > cnt(y) \/ (cnt(x) = cnt(y) /\ x < y)
        max_count == SetMax({cnt(a) : a \in kept})
    IN {[article_id |-> StrId(a), score |-> (1000 * cnt(a)) \div max_count] :
          a \in kept}

PopularK == 200
PopularWindow == 7
BoughtTogetherK == 50
RecentDaysShort == 3
RecentDaysLong == 7
SeedCap == 10

\* popular_by_age: purchases of the age cohort in the trailing window
popular_by_age(age_bin, T, C, k, window_days, max_date) ==
    LET age_customers == {u \in Users : C[u] = age_bin}
        age_txns == {t \in T : /\ t.customer_id \in age_customers
                               /\ max_date # -1
                               /\ t.t_dat >= max_date - window_days}
    IN IF age_customers = {} \/ age_txns = {} THEN {}
       ELSE CountScores(age_txns, k)

\* bought_together without the exclusion of the seed article
bought_together_with_seed(item_id, T, top_k) ==
    LET item_customers == {t.customer_id : t \in {r \in T : r.article_id = item_id}}
        customer_purchases == {t \in T : t.customer_id \in item_customers}
    IN IF item_customers = {} THEN {}
       ELSE CountScores(customer_purchases, top_k)

\* bought_together: what the buyers of the seed bought besides the seed
bought_together(item_id, T, top_k) ==
    LET item_customers == {t.customer_id : t \in {r \in T : r.article_id = item_id}}
        customer_purchases == {t \in T : t.customer_id \in item_customers}
        co_purchases == {t \in customer_purchases : t.article_id # item_id}
    IN IF item_customers = {} \/ co_purchases = {} THEN {}
       ELSE CountScores(co_purchases, top_k)

(***************************************************************************)
(* retrieval.py -- get_candidates_for_user                                 *)
(***************************************************************************)
TopNDefault == 500

WeightRecent == 4            \* weight_recent 0.4, in tenths
WeightRecentLong == 2        \* weight_recent * 0.5
WeightBoughtTogether == 3    \* weight_bought_together 0.3
WeightPopular == 3           \* weight_popular 0.3

\* The columns of a pivot table come out sorted by rule name.
RuleOrder == <<"bought_together", "popular_age", "recent_long", "recent_short">>

Weight(c) ==
    CASE c = "recent_short" -> WeightRecent
      [] c = "recent_long" -> WeightRecentLong
      [] c = "bought_together" -> WeightBoughtTogether
      [] c = "popular_age" -> WeightPopular

\* rule_df['rule'] = rule
Tagged(tbl, rule) ==
    {[article_id |-> r.article_id, score |-> r.score, rule |-> rule] : r \in tbl}

\* pd.read_csv(cache_file): the scores as written, the article ids parsed
\* as integers
ReadCsv(tbl) == {[article_id |-> IntId(r.article_id.a), score |-> r.score] : r \in tbl}

\* the order of a pivot index holding integers and strings: integers first
IdLess(x, y) ==
    \/ x.int /\ ~y.int
    \/ x.int = y.int /\ x.a < y.a

PivotIndex(all) == {r.article_id : r \in all}

HasRule(all, c) == \E r \in all : r.rule = c

PivotColumns(all) ==
    LET Present(c) == HasRule(all, c) IN SelectSeq(RuleOrder, Present)

\* aggfunc='max', fill_value=0.0
PivotValue(all, id, c) ==
    LET S == {r.score : r \in {x \in all : x.article_id = id /\ x.rule = c}}
    IN IF S = {} THEN 0 ELSE SetMax(S)

\* QuantileTransformer(n_quantiles = n, uniform).fit_transform of one column,
\* as a numerator over 2 * (n - 1): the minimum maps to 0, otherwise the
\* maximum maps to 1, and a value in between to the mean of its first and
\* last rank.  A column that sums to 0 is set to 0.
QuantileNum(all, id, c) ==
    LET ids == PivotIndex(all)
        vals == {PivotValue(all, j, c) : j \in ids}
        x == PivotValue(all, id, c)
        lo == Cardinality({j \in ids : PivotValue(all, j, c) < x})
        hi == Cardinality({j \in ids : PivotValue(all, j, c) <= x}) - 1
    IN IF SetMax(vals) = 0 THEN 0
       ELSE IF x = SetMin(vals) THEN 0
       ELSE IF x = SetMax(vals) THEN 2 * (Cardinality(ids) - 1)
       ELSE lo + hi

\* the last column holding the row's maximum
idxmax_last(cols, f) ==
    cols[CHOOSE i \in 1..Len(cols) :
           /\ \A j \in 1..Len(cols) : f[cols[j]] <= f[cols[i]]
           /\ \A j \in (i + 1)..Len(cols) : f[cols[j]] < f[cols[i]]]

\* DataFrame.idxmax(axis=1): the first column holding the row's maximum
idxmax(cols, f) ==
    cols[CHOOSE i \in 1..Len(cols) :
           /\ \A j \in 1..Len(cols) : f[cols[j]] <= f[cols[i]]
           /\ \A j \in 1..(i - 1) : f[cols[j]] < f[cols[i]]]

\* sum(w * comp), the weights left unnormalised: every row of one table is
\* divided by the same total
WeightedSum(cols, f) ==
    LET Term(c) == IF c \in Range(cols) THEN Weight(c) * f[c] ELSE 0
    IN Term("recent_short") + Term("recent_long")
         + Term("bought_together") + Term("popular_age")

\* the dictionary rule_scores_json is dumped from, per rule column, were it
\* taken from the normalised columns
rule_scores_normalized(row) == [c \in Range(row.cols) |-> row.norm[c]]

\* lambda row: {col: float(row[col]) for col in rule_columns}
rule_scores_json(row) == [c \in Range(row.cols) |-> row.raw[c]]

\* the row's best rule, were it taken from the normalised columns
reason_normalized(row) == idxmax(row.cols, row.norm)

\* candidates_pivot[rule_columns].idxmax(axis=1)
reason(row) == idxmax(row.cols, row.raw)

\* One row of candidates_pivot after normalisation and blending.
PivotRow(all, id) ==
    LET cols == PivotColumns(all)
        raw == [c \in Range(cols) |-> PivotValue(all, id, c)]
        norm == [c \in Range(cols) |-> QuantileNum(all, id, c)]
    IN [article_id |-> id, cols |-> cols, raw |-> raw, norm |-> norm,
        score |-> WeightedSum(cols, norm)]

\* the columns a call returns
Returned_row(user_id, row) ==
    [user_id |-> user_id, article_id |-> row.article_id, score |-> row.score,
     reason |-> reason(row), rule_scores_json |-> rule_scores_json(row)]

\* DataFrame.nlargest(n, 'score'): best score first, ties in index order
RECURSIVE nlargest(_, _)
nlargest(rows, n) ==
    IF rows = {} \/ n = 0 THEN << >>
    ELSE LET best == CHOOSE r \in rows : \A q \in rows \ {r} :
                       \/ r.score > q.score
                       \/ r.score = q.score /\ IdLess(r.article_id, q.article_id)
         IN <<best>> \o nlargest(rows \ {best}, n - 1)

\* the article ids the bought-together rule is seeded with: at most SeedCap
\* of the user's articles of the long window
user_recent_items(user_id, T, max_date) ==
    LET arts == {t.article_id : t \in {r \in T : /\ r.customer_id = user_id
                                                /\ r.t_dat >= max_date - RecentDaysLong}}
    IN IF Cardinality(arts) <= SeedCap THEN arts
       ELSE CHOOSE S \in SUBSET arts :
              /\ Cardinality(S) = SeedCap
              /\ \A x \in S, y \in arts \ S : x < y

NoFile == [exists |-> FALSE, rows |-> {}]

NoCandidates(user_id, top_n, use_cache) ==
    [user_id |-> user_id, top_n |-> top_n, use_cache |-> use_cache,
     known |-> FALSE, max_date |-> -1, user_dates |-> {},
     all |-> {}, pivot |-> {}, rows |-> << >>]

CandNone == NoCandidates(0, 0, FALSE)

\* the popular-by-age table of a call: the cached file when there is one
popular_table(age_bin, T, C, cache, use_cache, max_date) ==
    IF age_bin = "nan" THEN {}
    ELSE IF use_cache /\ cache[age_bin].exists THEN ReadCsv(cache[age_bin].rows)
    ELSE popular_by_age(age_bin, T, C, PopularK, PopularWindow, max_date)

\* the cache directory after the call
cache_after(age_bin, T, C, cache, use_cache, max_date) ==
    LET popular == popular_by_age(age_bin, T, C, PopularK, PopularWindow, max_date)
    IN IF age_bin # "nan" /\ use_cache /\ ~cache[age_bin].exists /\ popular # {}
       THEN [cache EXCEPT ![age_bin] = [exists |-> TRUE, rows |-> popular]]
       ELSE cache

\* get_candidates_for_user: what the call returns, with the locals it
\* computed on the way
get_candidates_for_user(user_id, T, C, cache, top_n, use_cache) ==
    IF C[user_id] = "absent" THEN NoCandidates(user_id, top_n, use_cache)
    ELSE
    LET max_date == MaxDate(T)
        recent_short == recent_items(user_id, T, RecentDaysShort, max_date)
        recent_long == recent_items(user_id, T, RecentDaysLong, max_date)
        popular == popular_table(C[user_id], T, C, cache, use_cache, max_date)
        bt == UNION {bought_together(i, T, BoughtTogetherK) :
                       i \in user_recent_items(user_id, T, max_date)}
        all == Tagged(recent_short, "recent_short")
                 \cup Tagged(recent_long, "recent_long")
                 \cup Tagged(popular, "popular_age")
                 \cup Tagged(bt, "bought_together")
        pivot == {PivotRow(all, id) : id \in PivotIndex(all)}
        result == nlargest(pivot, top_n)
    IN [user_id |-> user_id, top_n |-> top_n, use_cache |-> use_cache,
        known |-> TRUE, max_date |-> max_date,
        user_dates |-> {t.t_dat : t \in {r \in T : r.customer_id = user_id}},
        all |-> all, pivot |-> pivot,
        rows |-> [i \in 1..Len(result) |-> Returned_row(user_id, result[i])]]

TopNs == {1, TopNDefault}

\* A caller (the API, a batch job, the command line) asks for candidates.
GetCandidates ==
    \E user_id \in Users, top_n \in TopNs, use_cache \in BOOLEAN :
        /\ cand' = get_candidates_for_user(user_id, transactions, customers,
                                           popCache, top_n, use_cache)
        /\ popCache' = IF customers[user_id] = "absent" THEN popCache
                       ELSE cache_after(customers[user_id], transactions,
                                        customers, popCache, use_cache,
                                        MaxDate(transactions))
        /\ UNCHANGED <<transactions, customers, articles, itemCache, serveVars,
                       jobVars, storeVars, pure, race>>

RetrievalNext == AppendTransaction \/ GetCandidates

(***************************************************************************)
(* features.py -- the feature builder                                      *)
(***************************************************************************)
NaN == -999999               \* a missing numeric cell
NoHistoryRecency == 9999
ItemWindowShort == 7
ItemWindowLong == 30
LastItems == 3

\* Series.fillna(d)
fillna(v, d) == IF v = NaN THEN d ELSE v

\* compute_user_features; a customer row with a missing age_bin hands its
\* NaN on, only a customer without a row gets 'unknown'
compute_user_features(user_id, T, C, max_date) ==
    LET user_txns == {t \in T : t.customer_id = user_id}
    IN [user_total_purchases |-> Cardinality(user_txns),
        user_recency_days |->
            IF user_txns # {}
            THEN max_date - SetMax({t.t_dat : t \in user_txns})
            ELSE NoHistoryRecency,
        user_age_bin |-> IF C[user_id] # "absent" THEN C[user_id] ELSE "unknown"]

\* groupby('article_id') over the purchases of the trailing window: the
\* count and the mean price per article
item_aggregates(T, max_date, days) ==
    LET txns == {t \in T : t.t_dat >= max_date - days}
    IN {[article_id |-> StrId(a),
         n |-> Cardinality({t \in txns : t.article_id = a}),
         price_mean |-> Price(a)] : a \in {t.article_id : t \in txns}}

NoItemCache == [exists |-> FALSE, d7 |-> {}, d30 |-> {}]

\* the two aggregate files after a call: computed and written when absent
item_cache_after(T, max_date, cache) ==
    IF cache.exists THEN cache
    ELSE [exists |-> TRUE,
          d7 |-> item_aggregates(T, max_date, ItemWindowShort),
          d30 |-> item_aggregates(T, max_date, ItemWindowLong)]

\* the cell of an aggregate table for an article, NaN when it has no row
Cell(tbl, a, field) ==
    IF \E r \in tbl : r.article_id = a
    THEN (CHOOSE r \in tbl : r.article_id = a)[field]
    ELSE NaN

\* compute_item_features: the outer merge of the two aggregates, the
\* article metadata merged on, the gaps filled, cut to the asked articles
compute_item_features(article_ids, A, ic) ==
    LET arts == {r.article_id : r \in ic.d7 \cup ic.d30} \cap article_ids
    IN {[article_id |-> a,
         item_popularity_7d |-> fillna(Cell(ic.d7, a, "n"), 0),
         item_popularity_30d |-> fillna(Cell(ic.d30, a, "n"), 0),
         item_price_mean_30d |-> fillna(Cell(ic.d30, a, "price_mean"), 0),
         item_department_no |-> fillna(Cell(A, a, "department_no"), -1),
         item_gender_tag |-> fillna(Cell(A, a, "gender_tag"), 0)] : a \in arts}

\* the rows of user_txns.nlargest(3, 't_dat'); rows of one date are taken
\* in article order
last_rows(user_txns) ==
    IF Cardinality(user_txns) <= LastItems THEN user_txns
    ELSE CHOOSE S \in SUBSET user_txns :
           /\ Cardinality(S) = LastItems
           /\ \A x \in S, y \in user_txns \ S :
                \/ x.t_dat > y.t_dat
                \/ /\ x.t_dat = y.t_dat
                   /\ \/ x.article_id < y.article_id
                      \/ x.article_id = y.article_id /\ x.copy < y.copy

\* compute_interaction_features: one row per element of article_ids
compute_interaction_features(user_id, article_ids, T, max_date) ==
    LET user_txns == {t \in T : t.customer_id = user_id}
        recent == {StrId(t.article_id) :
                     t \in {r \in user_txns : r.t_dat >= max_date - ItemWindowShort}}
        last_3_items == {t.article_id : t \in last_rows(user_txns)}
        customers_with(last_item) ==
            {t.customer_id : t \in {r \in T : r.article_id = last_item}}
        co_count(item_id) ==
            Cardinality({<<l, t>> \in last_3_items \X T :
                           /\ t.customer_id \in customers_with(l)
                           /\ StrId(t.article_id) = item_id})
    IN [i \in 1..Len(article_ids) |->
          [article_id |-> article_ids[i],
           recent_interaction_flag_7d |->
               IF article_ids[i] \in recent THEN 1 ELSE 0,
           co_purchase_count_with_last3 |-> co_count(article_ids[i])]]

\* scores.get(rule, 0.0)
ScoreOf(js, rule) == IF rule \in DOMAIN js THEN js[rule] ELSE 0

\* parse_retrieval_scores
parse_retrieval_scores(js) ==
    [retrieval_recent_score |-> ScoreOf(js, "recent_short") + ScoreOf(js, "recent_long"),
     retrieval_bought_together_score |-> ScoreOf(js, "bought_together"),
     retrieval_popular_age_score |-> ScoreOf(js, "popular_age")]

\* features_df.merge(item_features, on='article_id', how='left') and the
\* fills after it; item_features has one row per article
merge_item_features(row, item_features) ==
    row @@ [item_popularity_7d |->
                fillna(Cell(item_features, row.article_id, "item_popularity_7d"), 0),
            item_popularity_30d |->
                fillna(Cell(item_features, row.article_id, "item_popularity_30d"), 0),
            item_price_mean_30d |->
                fillna(Cell(item_features, row.article_id, "item_price_mean_30d"), 0),
            item_department_no |->
                fillna(Cell(item_features, row.article_id, "item_department_no"), -1),
            item_gender_tag |->
                fillna(Cell(item_features, row.article_id, "item_gender_tag"), 0)]

\* features_df.merge(interaction_features, on='article_id', how='left') and
\* the fills after it: one output row per matching right row
RECURSIVE merge_interaction_features(_, _)
merge_interaction_features(rows, inter) ==
    IF rows = << >> THEN << >>
    ELSE LET l == Head(rows)
             Same(x) == x.article_id = l.article_id
             m == SelectSeq(inter, Same)
             Joined(flag, co) ==
                 l @@ [recent_interaction_flag_7d |-> fillna(flag, 0),
                       co_purchase_count_with_last3 |-> fillna(co, 0)]
         IN (IF m = << >> THEN <<Joined(NaN, NaN)>>
             ELSE [i \in 1..Len(m) |->
                     Joined(m[i].recent_interaction_flag_7d,
                            m[i].co_purchase_count_with_last3)])
              \o merge_interaction_features(Tail(rows), inter)

\* build_features_for_candidates, given the aggregate files as the call
\* leaves them
build_features_for_candidates(user_id, candidates_df, T, C, A, ic) ==
    LET max_date == MaxDate(T)
        article_ids == [i \in 1..Len(candidates_df) |-> candidates_df[i].article_id]
        user_features == compute_user_features(user_id, T, C, max_date)
        item_features == compute_item_features(Range(article_ids), A, ic)
        with_items == [i \in 1..Len(candidates_df) |->
                         merge_item_features(candidates_df[i] @@ user_features,
                                             item_features)]
        merged == merge_interaction_features(with_items,
                      compute_interaction_features(user_id, article_ids, T, max_date))
    IN [i \in 1..Len(merged) |->
          merged[i] @@ parse_retrieval_scores(merged[i].rule_scores_json)]

(***************************************************************************)
(* The offline jobs: retrieval.py main, features.py pipeline,              *)
(* create_training_data.py main                                            *)
(***************************************************************************)
NoCandFile == [exists |-> FALSE, user_id |-> 0, max_date |-> -1, rows |-> << >>]

NoFeat == [exists |-> FALSE, user_id |-> 0, max_date |-> -1,
           cand_max_date |-> -1, input |-> << >>, rows |-> << >>]

NoTrain == [exists |-> FALSE, target_start |-> 0, target_end |-> 0,
            train_window_start |-> 0, train_window_end |-> 0,
            feature_max_date |-> -1, candidate_max_date |-> -1,
            train |-> {}, val |-> {}]

\* retrieval.py main, single-user mode: the candidates of one user are
\* computed over the whole log and saved when there are any
SaveCandidates ==
    \E user_id \in Users, use_cache \in BOOLEAN :
        LET c == get_candidates_for_user(user_id, transactions, customers,
                                         popCache, TopNDefault, use_cache)
        IN /\ cand' = c
           /\ popCache' = IF customers[user_id] = "absent" THEN popCache
                          ELSE cache_after(customers[user_id], transactions,
                                           customers, popCache, use_cache,
                                           MaxDate(transactions))
           /\ candFile' = IF c.rows = << >> THEN candFile
                          ELSE [exists |-> TRUE, user_id |-> user_id,
                                max_date |-> c.max_date, rows |-> c.rows]
           /\ UNCHANGED <<transactions, customers, articles, itemCache,
                          feat, train, serveVars, storeVars, pure, race>>

\* load_candidates_for_user: the file read back, article_id cast to str
load_candidates_for_user(file) ==
    [i \in 1..Len(file.rows) |->
       [file.rows[i] EXCEPT !.article_id = StrId(file.rows[i].article_id.a)]]

\* pipeline_build_features_for_users over the candidate files at hand
pipeline_build_features_for_users(file, T, C, A, ic) ==
    LET candidates == load_candidates_for_user(file)
    IN [exists |-> TRUE, user_id |-> file.user_id, max_date |-> MaxDate(T),
        cand_max_date |-> file.max_date, input |-> candidates,
        rows |-> build_features_for_candidates(file.user_id, candidates, T, C, A,
                     item_cache_after(T, MaxDate(T), ic))]

\* features.py main: an existing output is kept unless overwrite is asked
BuildFeatures ==
    \E overwrite \in BOOLEAN :
        /\ candFile.exists
        /\ ~feat.exists \/ overwrite
        /\ feat' = pipeline_build_features_for_users(candFile, transactions,
                       customers, articles, itemCache)
        /\ itemCache' = item_cache_after(transactions, MaxDate(transactions), itemCache)
        /\ UNCHANGED <<transactions, customers, articles, popCache, cand,
                       candFile, train, serveVars, storeVars, pure, race>>

TargetDays == 6
TrainWindowGap == 7
TrainWindowSpan == 35
NegPosRatio == 4
ValFractionPct == 10

\* calculate_default_windows
calculate_default_windows(T) ==
    LET last_date == MaxDate(T)
    IN [target_end |-> last_date,
        target_start |-> last_date - TargetDays,
        train_window_end |-> last_date - TrainWindowGap,
        train_window_start |-> last_date - TrainWindowSpan]

\* The text of an identifier after astype(str) (lines 513-517, 551-552).
\* Identifiers 1 and 2 are the strings "1" and "2"; 12 and 21 name the
\* strings "1_2" and "2_1".
IdText ==
    (1 :> <<"1">>) @@ (2 :> <<"2">>)
    @@ (12 :> <<"1", "_", "2">>) @@ (21 :> <<"2", "_", "1">>)

\* lines 97 and 104: user_id + '_' + article_id
pair_key(user_id, article_id) == IdText[user_id] \o <<"_">> \o IdText[article_id]

\* label_candidate_rows: 1 for the rows whose pair_key is the pair_key of a
\* purchase of the target window; every row keeps its place in the file as
\* idx
label_candidate_rows(rows, T, target_start, target_end) ==
    LET target_txns == {t \in T : t.t_dat >= target_start /\ t.t_dat <= target_end}
        positive_pairs == {pair_key(t.customer_id, t.article_id) : t \in target_txns}
    IN {rows[i] @@ [idx |-> i,
                    label |-> IF pair_key(rows[i].user_id, rows[i].article_id.a)
                                    \in positive_pairs THEN 1 ELSE 0] :
          i \in 1..Len(rows)}

\* round() of num / den, halves to the even neighbour
RoundHalfEven(num, den) ==
    LET q == num \div den
        r == num % den
    IN IF 2 * r < den THEN q
       ELSE IF 2 * r > den THEN q + 1
       ELSE IF q % 2 = 0 THEN q ELSE q + 1

\* sample_negatives keeping half of every user's negatives, whatever the
\* target is
sample_negatives_half_per_user(df, neg_pos_ratio) ==
    LET positives == {r \in df : r.label = 1}
        negatives == {r \in df : r.label = 0}
        OfUser(S, u) == {r \in S : r.user_id = u}
    IN IF positives = {} \/ (Cardinality(positives) * neg_pos_ratio) \div 10
                               >= Cardinality(negatives) THEN {df}
       ELSE {positives \cup S : S \in {K \in SUBSET negatives :
                \A u \in {r.user_id : r \in negatives} :
                    Cardinality(OfUser(K, u)) =
                        (Cardinality(OfUser(negatives, u)) + 1) \div 2}}

\* sample_negatives: the tables the down-sampling may return; neg_pos_ratio
\* is the ratio in tenths, int() truncates the product
sample_negatives(df, neg_pos_ratio) ==
    LET positives == {r \in df : r.label = 1}
        negatives == {r \in df : r.label = 0}
        target_negatives == (Cardinality(positives) * neg_pos_ratio) \div 10
        OfUser(S, u) == {r \in S : r.user_id = u}
        n_sample(u) == RoundHalfEven(Cardinality(OfUser(negatives, u)) * target_negatives,
                                     Cardinality(negatives))
    IN IF positives = {} \/ target_negatives >= Cardinality(negatives) THEN {df}
       ELSE {positives \cup S : S \in {K \in SUBSET negatives :
                \A u \in {r.user_id : r \in negatives} :
                    Cardinality(OfUser(K, u)) =
                        Min(n_sample(u), Cardinality(OfUser(negatives, u)))}}

\* create_train_val_splits with the validation counts rounded up
create_train_val_splits_ceil(df) ==
    LET positives == {r \in df : r.label = 1}
        negatives == {r \in df : r.label = 0}
        n_val_pos == (Cardinality(positives) * ValFractionPct + 99) \div 100
        n_val_neg == (Cardinality(negatives) * ValFractionPct + 99) \div 100
    IN {[train |-> df \ (vp \cup vn), val |-> vp \cup vn] :
          vp \in {S \in SUBSET positives : Cardinality(S) = n_val_pos},
          vn \in {S \in SUBSET negatives : Cardinality(S) = n_val_neg}}

\* create_train_val_splits: the splits the stratified sampling may return
create_train_val_splits(df) ==
    LET positives == {r \in df : r.label = 1}
        negatives == {r \in df : r.label = 0}
        n_val_pos == (Cardinality(positives) * ValFractionPct) \div 100
        n_val_neg == (Cardinality(negatives) * ValFractionPct) \div 100
    IN {[train |-> df \ (vp \cup vn), val |-> vp \cup vn] :
          vp \in {S \in SUBSET positives : Cardinality(S) = n_val_pos},
          vn \in {S \in SUBSET negatives : Cardinality(S) = n_val_neg}}

\* create_training_data.py main with the default windows: the features are
\* loaded, or generated when the file is missing, labelled against the
\* target window, down-sampled and split
CreateTrainingData ==
    /\ transactions # {}
    /\ feat.exists \/ candFile.exists
    /\ LET features == IF feat.exists THEN feat
                       ELSE pipeline_build_features_for_users(candFile,
                                transactions, customers, articles, itemCache)
           windows == calculate_default_windows(transactions)
           labeled == label_candidate_rows(features.rows, transactions,
                                           windows.target_start, windows.target_end)
       IN /\ feat' = features
          /\ itemCache' = IF feat.exists THEN itemCache
                          ELSE item_cache_after(transactions,
                                                MaxDate(transactions), itemCache)
          /\ \E sampled \in sample_negatives(labeled, 10 * NegPosRatio) :
               \E split \in create_train_val_splits(sampled) :
                 train' = [exists |-> TRUE,
                           target_start |-> windows.target_start,
                           target_end |-> windows.target_end,
                           train_window_start |-> windows.train_window_start,
                           train_window_end |-> windows.train_window_end,
                           feature_max_date |-> features.max_date,
                           candidate_max_date |-> features.cand_max_date,
                           train |-> split.train, val |-> split.val]
    /\ UNCHANGED <<transactions, customers, articles, popCache, cand, candFile,
                   serveVars, storeVars, pure, race>>

\* The dataset before the first purchase is logged; no cache file yet.
DataInitWith(logs, tables, metas) ==
    /\ transactions \in logs
    /\ customers \in tables
    /\ articles \in metas
    /\ popCache = [b \in AgeBins |-> NoFile]
    /\ itemCache = NoItemCache

\* The dataset left aside by the specifications that do not read it.
DataIdle == DataInitWith({{}}, {[u \in Users |-> "absent"]}, {{}})

\* The offline jobs before their first run.
JobsIdle ==
    /\ candFile = NoCandFile
    /\ feat = NoFeat
    /\ train = NoTrain

TrainNext == SaveCandidates \/ BuildFeatures \/ CreateTrainingData

(***************************************************************************)
(* The shop database (db.py): products, users, cart, wishlist, orders      *)
(***************************************************************************)
None == "None"

StoreUsers == {1}

\* A Product row.  article_id is the primary key (a number stands for the
\* id string), name the words of the product name in lower case, colors the
\* names of the comma-separated colors column ({} for NULL).
Product(id, name, price, group, image, color, colors) ==
    [article_id |-> id, name |-> name, price |-> price,
     product_group_name |-> group, image_path |-> image,
     primary_color |-> color, colors |-> colors]

Garments ==
    {Product(1, <<"slim", "fit", "jeans">>, 100, "Garment Lower body",
             "img", "Blue", {"blue", "white"}),
     Product(2, <<"straight", "fit", "jeans">>, 120, "Garment Lower body",
             "img", "Blue", {"blue"}),
     Product(3, <<"the", "chinos">>, 100, "Garment Lower body",
             "img", "Beige", {}),
     Product(4, <<"slim", "fit", "jeans">>, 100, "Garment Lower body",
             "", "Blue", {}),
     Product(5, <<"jeans">>, 110, "Garment Lower body",
             None, "Blue", {}),
     Product(6, <<"sneakers">>, 300, "Shoes", "img", "Blue", {}),
     Product(7, <<"wide", "jeans">>, 400, "Garment Lower body",
             "img", "Blue", {}),
     Product(8, <<"bag">>, 50, "Accessories", "", "Black", {}),
     Product(10, <<"boots">>, 350, "Shoes", "img", "Brown", {})}

BulkProducts ==
    {Product(10 + i, <<"a", "bag">>, 50, "Accessories", "img", "Black", {}) :
        i \in 1..BulkCount}

Catalog == Garments \cup BulkProducts

\* User.preferred_categories: None for the users created before the column
\* existed, else what signup stored (api_auth.py line 296): one to three
\* valid category names joined with commas.  The string is held as the list
\* of its comma-separated parts, each part a list of blanks and words.
\* NULL is the list of no part: a string has at least one.
Null == <<>>

EmptyString == << <<>> >>

PrefChoices ==
    {Null,
     << <<"Accessories">> >>,
     << <<"Garment Lower body">>, <<"Shoes">> >>}

UserTables == [StoreUsers -> PrefChoices]

\* The catalog with every table of users, and the catalog without its large
\* category with the users who prefer that category.
ShopChoices ==
    {[products |-> Catalog, users |-> U] : U \in UserTables}
    \cup {[products |-> Garments,
           users |-> [u \in StoreUsers |-> << <<"Accessories">> >>]]}

RECURSIVE lstrip(_)
lstrip(t) == IF t # <<>> /\ Head(t) = " " THEN lstrip(Tail(t)) ELSE t

Reverse(t) == [i \in 1..Len(t) |-> t[Len(t) + 1 - i]]

strip(t) == Reverse(lstrip(Reverse(lstrip(t))))

\* Python truth of a nullable string column
Truthy(s) == s # None /\ s # ""

ProductOf(P, article_id) == {p \in P : p.article_id = article_id}

UserRows(rows, user_id) == {r \in rows : r.user_id = user_id}

RECURSIVE SumTotals(_)
SumTotals(items) ==
    IF items = {} THEN 0
    ELSE LET it == CHOOSE x \in items : TRUE
         IN it.price * it.qty + SumTotals(items \ {it})

\* Query.limit(n) without ORDER BY: any n of the matching rows
RECURSIVE KSubsets(_, _)
KSubsets(S, k) ==
    IF k = 0 THEN {{}}
    ELSE IF Cardinality(S) <= k THEN {S}
    ELSE LET x == CHOOSE y \in S : TRUE
         IN KSubsets(S \ {x}, k) \cup
            {T \cup {x} : T \in KSubsets(S \ {x}, k - 1)}

\* random.shuffle of the rows of a query: every order
Shuffles(S) ==
    {f \in [1..Cardinality(S) -> S] :
        \A i, j \in 1..Cardinality(S) : f[i] = f[j] => i = j}

(***************************************************************************)
(* personalized_recommend.py                                               *)
(***************************************************************************)
stop_words == {"the", "a", "an", "and", "or", "in", "on", "for", "of", "with"}

extract_keywords(text) ==
    {w \in Range(text) : Len(w) > 2 /\ w \notin stop_words}

\* Jaccard similarity scaled to 0..5, in sixtieths
calculate_name_similarity(name1, name2) ==
    LET keywords1 == extract_keywords(name1)
        keywords2 == extract_keywords(name2)
    IN IF keywords1 = {} \/ keywords2 = {} THEN 0
       ELSE (300 * Cardinality(keywords1 \cap keywords2))
                \div Cardinality(keywords1 \cup keywords2)

\* in sixtieths
calculate_similarity_score(product1, product2) ==
    calculate_name_similarity(product1.name, product2.name)
    + (IF Truthy(product1.primary_color) /\ Truthy(product2.primary_color)
          /\ product1.primary_color = product2.primary_color
       THEN 240 ELSE 0)
    + (IF Truthy(product1.product_group_name)
          /\ Truthy(product2.product_group_name)
          /\ product1.product_group_name = product2.product_group_name
       THEN 180 ELSE 0)
    + 120 * Cardinality(product1.colors \cap product2.colors)
    + (IF product1.price # 0 /\ product2.price # 0
          /\ 5 * (Max(product1.price, product2.price)
                  - Min(product1.price, product2.price))
             <= Max(product1.price, product2.price)
       THEN 90 ELSE 0)

get_user_activity_products_cart_only(user_id, C, W, O) ==
    {r.article_id : r \in UserRows(C, user_id)}

get_user_activity_products(user_id, C, W, O) ==
    {r.article_id : r \in UserRows(C, user_id)}
    \cup {r.article_id : r \in UserRows(W, user_id)}
    \cup UNION {{it.article_id : it \in O[i].items} :
                    i \in {j \in 1..Len(O) : O[j].user_id = user_id}}

CandidateLimit == 50
AdditionalLimit == 30
NoPriceMax == 999999

HasImage(p) == p.image_path # None /\ p.image_path # ""

\* price between 50% and 150% of the source price
InPriceRange(source, p) ==
    IF source.price # 0
    THEN 2 * p.price >= source.price /\ 2 * p.price <= 3 * source.price
    ELSE p.price >= 0 /\ p.price <= NoPriceMax

\* The rows the two queries match (lines 217-239 and 246-252)
similar_query(source, P, exclude_ids, same_color) ==
    {p \in P :
        /\ p.article_id \notin exclude_ids
        /\ HasImage(p)
        /\ Truthy(source.product_group_name)
              => p.product_group_name = source.product_group_name
        /\ (same_color /\ Truthy(source.primary_color))
              => p.primary_color = source.primary_color
        /\ InPriceRange(source, p)}

\* scored_products.sort(reverse=True)[:top_n]: the rows of equal score stay
\* in the order the database returned them, which is any order
TopScored(scored, n) ==
    {R \in KSubsets(scored, Min(n, Cardinality(scored))) :
        \A r \in R : \A o \in scored \ R : r.score >= o.score}

similar_from(source, first, additional, top_n) ==
    LET candidates == IF Cardinality(first) < top_n
                         /\ Truthy(source.product_group_name)
                      THEN first \cup additional
                      ELSE first
        scored == {[product |-> p,
                    score |-> calculate_similarity_score(source, p)] :
                      p \in {q \in candidates :
                                q.article_id # source.article_id}}
    IN TopScored(scored, top_n)

\* The same search with no article excluded
get_similar_products_unfiltered(source, P, exclude_ids, top_n) ==
    UNION {UNION {similar_from(source, first, additional, top_n) :
                additional \in KSubsets(similar_query(source, P, {}, FALSE),
                                        AdditionalLimit)} :
            first \in KSubsets(similar_query(source, P, {}, TRUE),
                               CandidateLimit)}

\* Every list the search may return, as the set of its (product, score) rows
get_similar_products_optimized(source, P, exclude_ids, top_n) ==
    UNION {UNION {similar_from(source, first, additional, top_n) :
                additional \in KSubsets(
                    similar_query(source, P, exclude_ids, FALSE),
                    AdditionalLimit)} :
            first \in KSubsets(similar_query(source, P, exclude_ids, TRUE),
                               CandidateLimit)}

ColdStartLimit == 20
PerProduct == 5

categories_of(field) ==
    {strip(field[i]) : i \in {j \in 1..Len(field) : strip(field[j]) # <<>>}}

category_item(p) ==
    [article_id |-> p.article_id, price |-> p.price,
     image_path |-> p.image_path,
     product_group_name |-> p.product_group_name,
     score |-> 300]

category_query(field, P) ==
    {p \in P : /\ <<p.product_group_name>> \in categories_of(field)
               /\ HasImage(p)}

\* The same query cut at no limit
get_category_based_recommendations_unlimited(user_id, U, P, limit) ==
    IF user_id \notin DOMAIN U \/ U[user_id] = Null
       \/ U[user_id] = EmptyString
    THEN {{}}
    ELSE IF categories_of(U[user_id]) = {} THEN {{}}
    ELSE {{category_item(p) : p \in category_query(U[user_id], P)}}

\* The same query falling back to every category when the user has none
get_category_based_recommendations_any_category(user_id, U, P, limit) ==
    IF user_id \notin DOMAIN U \/ U[user_id] = Null
       \/ U[user_id] = EmptyString \/ categories_of(U[user_id]) = {}
    THEN {{category_item(p) : p \in {q \in P : HasImage(q)}}}
    ELSE UNION {{{category_item(p) : p \in selected} :
                    selected \in KSubsets(rows, limit)} :
                rows \in KSubsets(category_query(U[user_id], P), limit * 2)}

\* Every list the cold-start query may return, as the set of its items
get_category_based_recommendations(user_id, U, P, limit) ==
    IF user_id \notin DOMAIN U \/ U[user_id] = Null
       \/ U[user_id] = EmptyString
    THEN {{}}
    ELSE IF categories_of(U[user_id]) = {} THEN {{}}
    ELSE UNION {{{category_item(p) : p \in selected} :
                    selected \in KSubsets(rows, limit)} :
                rows \in KSubsets(category_query(U[user_id], P), limit * 2)}

similar_item(source, r) ==
    [article_id |-> r.product.article_id, price |-> r.product.price,
     image_path |-> r.product.image_path,
     product_group_name |-> r.product.product_group_name,
     score |-> r.score,
     source_article_id |-> source.article_id]

\* The same loop keeping every similar product the search returned
RECURSIVE recommend_loop_uncut(_, _, _, _, _)
recommend_loop_uncut(sources, P, activity_products, seen_article_ids, per) ==
    IF sources = <<>> THEN {{}}
    ELSE LET source == Head(sources)
             lists == get_similar_products_optimized(
                          source, P, activity_products \cup seen_article_ids,
                          per * 2)
         IN UNION {
                {{similar_item(source, r) : r \in similar_products} \cup rest :
                    rest \in recommend_loop_uncut(
                        Tail(sources), P, activity_products,
                        seen_article_ids
                            \cup {r.product.article_id : r \in similar_products},
                        per)} :
              similar_products \in lists}

\* The loop of lines 407-437 over the shuffled activity products: every set
\* of recommendations it may build
RECURSIVE recommend_loop(_, _, _, _, _)
recommend_loop(sources, P, activity_products, seen_article_ids, per) ==
    IF sources = <<>> THEN {{}}
    ELSE LET source == Head(sources)
             lists == get_similar_products_optimized(
                          source, P, activity_products \cup seen_article_ids,
                          per * 2)
         IN UNION {UNION {
                {{similar_item(source, r) : r \in selected} \cup rest :
                    rest \in recommend_loop(
                        Tail(sources), P, activity_products,
                        seen_article_ids
                            \cup {r.product.article_id : r \in selected},
                        per)} :
                selected \in KSubsets(similar_products, per)} :
              similar_products \in lists}

\* Every result of one call: the branch taken and the items returned
generate_personalized_recommendations(user_id, U, P, C, W, O, per) ==
    LET activity_products == get_user_activity_products(user_id, C, W, O)
    IN IF activity_products = {}
       THEN {[path |-> "category", recommendations |-> recs] :
                recs \in get_category_based_recommendations(
                             user_id, U, P, ColdStartLimit)}
       ELSE {[path |-> "similar", recommendations |-> recs] :
                recs \in UNION {
                    recommend_loop(sources, P, activity_products, {}, per) :
                    sources \in Shuffles({p \in P : p.article_id
                                             \in activity_products})}}

(***************************************************************************)
(* api_foryou.py, api_cart.py, api_wishlist.py, api_orders.py: one client  *)
(* session issuing its requests one after the other                        *)
(***************************************************************************)
NoResponse == [user_id |-> 0]

CartArticles == {1, 2, 9}
WishArticles == {6, 9}
BuyArticles == {1, 9}
ClientOrderIds == {None, "k1"}

\* GET /foryou/
get_for_you_recommendations ==
    /\ foryou = NoResponse
    /\ \E user_id \in StoreUsers :
         \E r \in generate_personalized_recommendations(
                      user_id, users, products, cart, wishlist, orders,
                      PerProduct) :
            /\ foryou' = [user_id |-> user_id,
                          path |-> r.path,
                          recommendations |-> r.recommendations,
                          count |-> Cardinality(r.recommendations),
                          activity_products_count |->
                              Cardinality(get_user_activity_products(
                                  user_id, cart, wishlist, orders))]
            /\ served_similar' = (served_similar \/ r.path = "similar")
    /\ UNCHANGED <<products, users, cart, wishlist, orders, purchases,
                   notStore>>

\* A caller of the function itself (the verification scripts), with the id
\* of a user or an id no User row has
CallerIds == StoreUsers \cup {99999}

direct_call ==
    /\ foryou = NoResponse
    /\ \E user_id \in CallerIds :
         \E r \in generate_personalized_recommendations(
                      user_id, users, products, cart, wishlist, orders,
                      PerProduct) :
            /\ foryou' = [user_id |-> user_id,
                          path |-> r.path,
                          recommendations |-> r.recommendations,
                          count |-> Cardinality(r.recommendations),
                          activity_products_count |->
                              Cardinality(get_user_activity_products(
                                  user_id, cart, wishlist, orders))]
            /\ served_similar' = (served_similar \/ r.path = "similar")
    /\ UNCHANGED <<products, users, cart, wishlist, orders, purchases,
                   notStore>>

\* The client has read the response
ForYouRead ==
    /\ foryou # NoResponse
    /\ foryou' = NoResponse
    /\ UNCHANGED <<products, users, cart, wishlist, orders, purchases,
                   served_similar, notStore>>

\* POST /cart/add for the quantities the client may send; CartAddIn takes
\* any integer (api_cart.py line 78)
add_to_cart_with(quantities) ==
    /\ foryou = NoResponse
    /\ \E user_id \in StoreUsers, article_id \in CartArticles,
          quantity \in quantities :
         LET existing_item == {c \in UserRows(cart, user_id) :
                                  c.article_id = article_id}
         IN IF ProductOf(products, article_id) = {}
            THEN UNCHANGED cart                      \* 404
            ELSE IF existing_item # {}
            THEN \E c \in existing_item :
                    /\ c.qty + quantity <= MaxQty
                    /\ c.qty + quantity >= 0 - MaxQty
                    /\ cart' = (cart \ {c})
                         \cup {[c EXCEPT !.qty = c.qty + quantity]}
            ELSE cart' = cart \cup {[user_id |-> user_id,
                                     article_id |-> article_id,
                                     qty |-> quantity]}
    /\ UNCHANGED <<products, users, wishlist, orders, purchases, foryou,
                   served_similar, notStore>>

\* POST /cart/add with a quantity of at least 1
add_to_cart == add_to_cart_with(1..MaxQty)

\* POST /cart/remove/{article_id}
remove_from_cart ==
    /\ foryou = NoResponse
    /\ \E user_id \in StoreUsers, article_id \in CartArticles :
         cart' = {c \in cart : ~(c.user_id = user_id
                                 /\ c.article_id = article_id)}
    /\ UNCHANGED <<products, users, wishlist, orders, purchases, foryou,
                   served_similar, notStore>>

\* POST /cart/clear
clear_cart ==
    /\ foryou = NoResponse
    /\ \E user_id \in StoreUsers : cart' = cart \ UserRows(cart, user_id)
    /\ UNCHANGED <<products, users, wishlist, orders, purchases, foryou,
                   served_similar, notStore>>

\* POST /wishlist/add for the articles the client may name
add_to_wishlist_with(article_ids) ==
    /\ foryou = NoResponse
    /\ \E user_id \in StoreUsers, article_id \in article_ids :
         IF ProductOf(products, article_id) = {}
         THEN UNCHANGED wishlist                     \* 404
         ELSE wishlist' = wishlist \cup {[user_id |-> user_id,
                                          article_id |-> article_id]}
    /\ UNCHANGED <<products, users, cart, orders, purchases, foryou,
                   served_similar, notStore>>

add_to_wishlist == add_to_wishlist_with(WishArticles)

\* POST /wishlist/remove/{article_id} for the articles the client may name
remove_from_wishlist_with(article_ids) ==
    /\ foryou = NoResponse
    /\ \E user_id \in StoreUsers, article_id \in article_ids :
         wishlist' = wishlist \ {[user_id |-> user_id,
                                  article_id |-> article_id]}
    /\ UNCHANGED <<products, users, cart, orders, purchases, foryou,
                   served_similar, notStore>>

remove_from_wishlist == remove_from_wishlist_with(WishArticles)

\* checkout leaving the cart rows in place
checkout_call_keeps_cart(user_id, P, C, O) ==
    LET cart_items == UserRows(C, user_id)
        order_items_data ==
            {[article_id |-> c.article_id, qty |-> c.qty,
              price |-> (CHOOSE p \in P : p.article_id = c.article_id).price] :
                c \in cart_items}
    IN IF cart_items = {}
       THEN [status |-> 400, order_id |-> 0, orders |-> O, cart |-> C]
       ELSE IF \E c \in cart_items : ProductOf(P, c.article_id) = {}
       THEN [status |-> 404, order_id |-> 0, orders |-> O, cart |-> C]
       ELSE [status |-> 200, order_id |-> Len(O) + 1,
             orders |-> Append(O,
                 [id |-> Len(O) + 1,
                  user_id |-> user_id,
                  total_amount |-> SumTotals(order_items_data),
                  client_order_id |-> None,
                  items |-> order_items_data]),
             cart |-> C]

\* checkout as a function of the user and the tables: the response (status
\* and order_id, 0 when there is none) and the tables after it
checkout_call(user_id, P, C, O) ==
    LET cart_items == UserRows(C, user_id)
        order_items_data ==
            {[article_id |-> c.article_id, qty |-> c.qty,
              price |-> (CHOOSE p \in P : p.article_id = c.article_id).price] :
                c \in cart_items}
    IN IF cart_items = {}
       THEN [status |-> 400, order_id |-> 0, orders |-> O, cart |-> C]
       ELSE IF \E c \in cart_items : ProductOf(P, c.article_id) = {}
       THEN [status |-> 404, order_id |-> 0, orders |-> O, cart |-> C]
       ELSE [status |-> 200, order_id |-> Len(O) + 1,
             orders |-> Append(O,
                 [id |-> Len(O) + 1,
                  user_id |-> user_id,
                  total_amount |-> SumTotals(order_items_data),
                  client_order_id |-> None,
                  items |-> order_items_data]),
             cart |-> C \ cart_items]

\* POST /orders/checkout
checkout ==
    /\ foryou = NoResponse
    /\ \E user_id \in StoreUsers :
         LET r == checkout_call(user_id, products, cart, orders)
         IN /\ r.orders # orders => Len(orders) < MaxOrders
            /\ orders' = r.orders
            /\ cart' = r.cart
    /\ UNCHANGED <<products, users, wishlist, purchases, foryou,
                   served_similar, notStore>>

\* GET /orders/: the user's orders, latest first
get_orders(user_id, O) ==
    Reverse(SelectSeq(O, LAMBDA o : o.user_id = user_id))

\* buy_now as a function of the request and the tables: the response
\* (status and order_id, 0 when there is none) and the tables after it.
\* The replay test is on the truth value of client_order_id; the INSERT of a
\* client_order_id that some order already carries fails on the unique
\* column at db.flush() and the handler rolls back and answers 500.
buy_now_call(user_id, article_id, qty, client_order_id, P, C, O, n_purchases) ==
    LET existing_order ==
            {i \in 1..Len(O) :
                /\ O[i].client_order_id = client_order_id
                /\ O[i].user_id = user_id}
        product == ProductOf(P, article_id)
        cart_item == {c \in UserRows(C, user_id) : c.article_id = article_id}
        Refused(status) ==
            [status |-> status, order_id |-> 0, orders |-> O,
             purchases |-> n_purchases, cart |-> C]
    IN IF qty < 1 THEN Refused(400)
       ELSE IF Truthy(client_order_id) /\ existing_order # {}
       THEN [status |-> 201, order_id |-> O[SetMin(existing_order)].id,
             orders |-> O, purchases |-> n_purchases, cart |-> C]
       ELSE IF product = {} THEN Refused(404)
       ELSE IF /\ client_order_id # None
               /\ \E i \in 1..Len(O) : O[i].client_order_id = client_order_id
       THEN Refused(500)
       ELSE LET p == CHOOSE x \in product : TRUE
            IN [status |-> 201, order_id |-> Len(O) + 1,
                orders |-> Append(O,
                    [id |-> Len(O) + 1,
                     user_id |-> user_id,
                     total_amount |-> p.price * qty,
                     client_order_id |-> client_order_id,
                     items |-> {[article_id |-> article_id,
                                 qty |-> qty,
                                 price |-> p.price]}]),
                purchases |-> n_purchases + 1,
                cart |-> (C \ cart_item)
                    \cup {[c EXCEPT !.qty = c.qty - qty] :
                            c \in {d \in cart_item : d.qty > qty}}]

\* POST /orders/buy_now with a client_order_id of the given set
buy_now_with(client_order_ids) ==
    /\ foryou = NoResponse
    /\ \E user_id \in StoreUsers, article_id \in BuyArticles,
          qty \in 0..MaxQty, client_order_id \in client_order_ids :
         LET r == buy_now_call(user_id, article_id, qty, client_order_id,
                               products, cart, orders, purchases)
         IN /\ r.orders # orders => Len(orders) < MaxOrders
            /\ orders' = r.orders
            /\ purchases' = r.purchases
            /\ cart' = r.cart
    /\ UNCHANGED <<products, users, wishlist, foryou, served_similar,
                   notStore>>

\* POST /orders/buy_now without a client_order_id or with the one id of the
\* client
buy_now == buy_now_with(ClientOrderIds)

\* The shop before the first request
StoreInitWith(shops) ==
    /\ \E shop \in shops :
         /\ products = shop.products
         /\ users = shop.users
    /\ cart = {}
    /\ wishlist = {}
    /\ orders = <<>>
    /\ purchases = 0
    /\ foryou = NoResponse
    /\ served_similar = FALSE

\* The shop left aside by the specifications that do not read it
StoreIdle ==
    StoreInitWith({[products |-> {}, users |-> [u \in StoreUsers |-> Null]]})

StoreNext ==
    \/ get_for_you_recommendations \/ ForYouRead
    \/ add_to_cart \/ remove_from_cart \/ clear_cart
    \/ add_to_wishlist \/ remove_from_wishlist
    \/ checkout \/ buy_now

(***************************************************************************)
(* api_recommend.py -- the model singleton, /reload and /health            *)
(***************************************************************************)

\* Module import (lines 45-60): the model file is loaded, or the load is
\* skipped (file missing) or fails, which leaves both globals None.
ImportStates == {[m |-> 0, at |-> 0], [m |-> 1, at |-> 1]}

RlIdle == [pc |-> "idle", ret |-> "none"]

\* a failing reload that lets the exception reach the client
ReloadFailed_Raises(why) == [pc |-> "ret", ret |-> "raised"]

\* lines 451-461: a missing file or a raising load returns an error status
ReloadFailed(why) == [pc |-> "ret", ret |-> why]

\* reload_model, line 441: model = joblib.load(MODEL_PATH).  The load has
\* completed before the global is assigned.
ReloadLoad ==
    /\ rl.pc = "idle"
    /\ \/ /\ nloads < MaxLoads
          /\ nloads' = nloads + 1
          /\ model' = nloads + 1
          /\ rl' = [pc |-> "stamp", ret |-> "none"]
          /\ UNCHANGED model_loaded_at
       \/ /\ rl' = ReloadFailed("error_missing")
          /\ UNCHANGED <<model, model_loaded_at, nloads>>
       \/ /\ rl' = ReloadFailed("error_raised")
          /\ UNCHANGED <<model, model_loaded_at, nloads>>
    /\ UNCHANGED <<h, g, candPool, served, impressions, notServe>>

\* reload_model, line 442: model_loaded_at = datetime.now()
ReloadStamp ==
    /\ rl.pc = "stamp"
    /\ model_loaded_at' = nloads
    /\ rl' = [pc |-> "ret", ret |-> "success"]
    /\ UNCHANGED <<model, nloads, h, g, candPool, served, impressions, notServe>>

\* lines 445-461: the status is returned to the client
ReloadReturn ==
    /\ rl.pc = "ret"
    /\ rl' = RlIdle
    /\ UNCHANGED <<model, model_loaded_at, nloads, h, g, candPool, served,
                   impressions, notServe>>

HNone == [pc |-> "idle", model_loaded |-> FALSE, seen_model |-> 0,
          at_set |-> FALSE, loaded_at |-> 0, fallback_mode |-> "none",
          seen_model2 |-> 0]

\* get_recommendation_health, line 411: "model_loaded": model is not None
HealthReadModel ==
    /\ h.pc = "idle"
    /\ h' = [HNone EXCEPT !.pc = "at", !.model_loaded = (model # 0),
                          !.seen_model = model]
    /\ UNCHANGED <<model, model_loaded_at, nloads, rl, g, candPool, served,
                   impressions, notServe>>

\* line 414, the condition of "... if model_loaded_at else None"
HealthTestLoadedAt ==
    /\ h.pc = "at"
    /\ h' = [h EXCEPT !.pc = IF model_loaded_at # 0 THEN "at2" ELSE "fb",
                      !.at_set = (model_loaded_at # 0)]
    /\ UNCHANGED <<model, model_loaded_at, nloads, rl, g, candPool, served,
                   impressions, notServe>>

\* line 414, model_loaded_at.isoformat(): the global is read again
HealthReadLoadedAt ==
    /\ h.pc = "at2"
    /\ h' = [h EXCEPT !.pc = "fb", !.loaded_at = model_loaded_at]
    /\ UNCHANGED <<model, model_loaded_at, nloads, rl, g, candPool, served,
                   impressions, notServe>>

\* line 415: "retrieval_only" if model is None else "ml_powered"
HealthReadFallback ==
    /\ h.pc = "fb"
    /\ h' = [h EXCEPT !.pc = "done", !.seen_model2 = model,
                      !.fallback_mode = IF model = 0 THEN "retrieval_only"
                                        ELSE "ml_powered"]
    /\ UNCHANGED <<model, model_loaded_at, nloads, rl, g, candPool, served,
                   impressions, notServe>>

\* the response has been sent; the next health request may start
HealthDone ==
    /\ h.pc = "done"
    /\ h' = HNone
    /\ UNCHANGED <<model, model_loaded_at, nloads, rl, g, candPool, served,
                   impressions, notServe>>

(***************************************************************************)
(* api_recommend.py -- generate_recommendations and its endpoints          *)
(***************************************************************************)

\* A row of candidates_df as the scorer uses it.
CandRows == [article_id : ServedArticles, score : 1..MaxCand]

\* The tables get_candidates_for_user can return: distinct articles, sorted
\* by score descending (retrieval.py lines 410-412).
CandTables ==
    {t \in UNION {[1..n -> CandRows] : n \in 0..MaxCand} :
        /\ \A i, j \in DOMAIN t : i # j => t[i].article_id # t[j].article_id
        /\ \A i, j \in DOMAIN t : i < j => t[i].score >= t[j].score}

\* model.predict(X), line 221: the score the n-th loaded model gives an
\* article.  The classifier is opaque; different loads rank differently.
Predict(v, a) == (a * v) % (NumServed + 1)

\* df.sort_values(col, ascending=False): every order of the rows that is
\* non-increasing in col (ties are in no guaranteed order).
SortedDesc(df, col) ==
    {p \in Perms(df) : \A i, j \in DOMAIN p : i < j => p[i][col] >= p[j][col]}

GNone == [pc |-> "idle", k |-> 0, use_model |-> FALSE,
          record_impression |-> FALSE, cands |-> << >>, cand_failed |-> FALSE,
          feats |-> "none", df |-> << >>, vcheck |-> 0, vpredict |-> 0,
          scored_by |-> "none", recs |-> << >>, outcome |-> "none",
          err |-> "none", model_used |-> FALSE, impr |-> "none"]

\* return <list>, lines 167, 174, 188, 287
Returned(gg, recs) == [gg EXCEPT !.pc = "resp", !.outcome = "returned", !.recs = recs]

\* raise HTTPException(500), lines 289-294: the endpoint builds no response
Raised(gg, why) == [gg EXCEPT !.pc = "done", !.outcome = "raised", !.err = why]

\* lines 171-174: an exception of get_candidates_for_user returns []
OnCandidateError(gg) == Returned([gg EXCEPT !.cand_failed = TRUE], << >>)

\* features_df of a successful build: one row per candidate
WithMl(rows) ==
    [i \in DOMAIN rows |-> [article_id |-> rows[i].article_id,
                            score |-> rows[i].score, ml_score |-> 0]]

\* what the failure policy of the specification asks for instead
OnFeatureError_ReturnsEmpty(gg) ==
    Returned([gg EXCEPT !.feats = "fallback"], << >>)

\* lines 192-195: an exception of build_features_for_candidates is logged
\* and the candidate table is used in place of the feature table
OnFeatureError(gg) ==
    [gg EXCEPT !.pc = "check", !.feats = "fallback", !.df = WithMl(gg.cands)]

\* the same ranking with the ml_score column left as the builder made it
RetrievalScored_KeepsMlScore(gg, sorted) ==
    [gg EXCEPT !.pc = "topk", !.scored_by = "retrieval", !.df = sorted]

\* lines 233-235 and 238-240: rank by the retrieval score
RetrievalScored(gg, sorted) ==
    [gg EXCEPT !.pc = "topk", !.scored_by = "retrieval",
               !.df = [i \in DOMAIN sorted |->
                         [sorted[i] EXCEPT !.ml_score = sorted[i].score]]]

\* lines 221-227: rank by the prediction of the model read at line 221
ModelScored(gg, v, sorted) ==
    [gg EXCEPT !.pc = "topk", !.scored_by = "model", !.df = sorted]

Predicted(df, v) ==
    [i \in DOMAIN df |-> [df[i] EXCEPT !.ml_score = Predict(v, df[i].article_id)]]

\* lines 243-261: head(k), then one item per row whose product exists
Enrich(df, k, prods) ==
    LET top_k == Head_n(df, k)
        F[i \in 0..Len(top_k)] ==
            IF i = 0 THEN << >>
            ELSE IF top_k[i].article_id \in prods
                 THEN Append(F[i-1], [article_id |-> top_k[i].article_id,
                                      score |-> top_k[i].ml_score])
                 ELSE F[i-1]
    IN F[Len(top_k)]

GenUnchanged == UNCHANGED <<model, model_loaded_at, nloads, rl, h, candPool,
                            served, notServe>>

\* a request arrives: /recommend/me or /recommend/user/{id}
GenStart ==
    /\ g.pc = "idle"
    /\ \E k \in 1..MaxCand, um \in BOOLEAN, ri \in BOOLEAN :
         g' = [GNone EXCEPT !.pc = "load", !.k = k, !.use_model = um,
                            !.record_impression = ri]
    /\ UNCHANGED impressions /\ GenUnchanged

\* lines 145-152: load_processed_data, whose failure is a 500
GenLoadData ==
    /\ g.pc = "load"
    /\ \/ g' = [g EXCEPT !.pc = "cands"]
       \/ g' = Raised(g, "load")
    /\ UNCHANGED impressions /\ GenUnchanged

\* lines 155-174: get_candidates_for_user
GenCandidates ==
    /\ g.pc = "cands"
    /\ \/ \E t \in candPool \ {<< >>} : g' = [g EXCEPT !.pc = "feats", !.cands = t]
       \/ g' = Returned(g, << >>)
       \/ g' = OnCandidateError(g)
    /\ UNCHANGED impressions /\ GenUnchanged

\* lines 177-195: build_features_for_candidates (one row per candidate, so
\* the empty check of line 186 cannot hold here)
GenFeatures ==
    /\ g.pc = "feats"
    /\ \/ g' = [g EXCEPT !.pc = "check", !.feats = "built", !.df = WithMl(g.cands)]
       \/ g' = OnFeatureError(g)
    /\ UNCHANGED impressions /\ GenUnchanged

\* line 198: if use_model and model is not None -- the first read of the
\* global; the else branch (lines 236-240) ranks by retrieval score
GenCheckModel ==
    /\ g.pc = "check"
    /\ \/ /\ g.use_model /\ model # 0
          /\ g' = [g EXCEPT !.pc = "predict", !.vcheck = model]
       \/ /\ ~(g.use_model /\ model # 0)
          /\ \E sorted \in SortedDesc(g.df, "score") :
               g' = RetrievalScored([g EXCEPT !.vcheck = model], sorted)
    /\ UNCHANGED impressions /\ GenUnchanged

\* lines 199-235: model.predict reads the global again; any exception of
\* the try block falls back to the retrieval score
GenPredict ==
    /\ g.pc = "predict"
    /\ \/ \E sorted \in SortedDesc(Predicted(g.df, model), "ml_score") :
            g' = ModelScored([g EXCEPT !.vpredict = model], model, sorted)
       \/ \E sorted \in SortedDesc(g.df, "score") :
            g' = RetrievalScored([g EXCEPT !.vpredict = model], sorted)
    /\ UNCHANGED impressions /\ GenUnchanged

\* lines 243-261: top-k and the product lookups; a failing lookup reaches
\* the outer handler of lines 289-294
GenTopK ==
    /\ g.pc = "topk"
    /\ \/ g' = [g EXCEPT !.pc = "impr", !.recs = Enrich(g.df, g.k, served)]
       \/ g' = Raised(g, "db")
    /\ UNCHANGED impressions /\ GenUnchanged

\* the same failure reaching the outer handler of lines 289-294
OnImpressionError_Raises(gg) == Raised([gg EXCEPT !.impr = "failed"], "db")

\* lines 280-282: an exception of the lookup, of db.add or of db.commit is
\* logged, and line 287 returns the list built at lines 246-261
OnImpressionError(gg) == Returned([gg EXCEPT !.impr = "failed"], gg.recs)

\* lines 264-287: best-effort impression rows, then return recommendations
GenImpressions ==
    /\ g.pc = "impr"
    /\ \/ /\ g.record_impression /\ g.recs # << >>
          /\ \/ /\ impressions + Len(g.recs) <= MaxImpressions
                /\ impressions' = impressions + Len(g.recs)
                /\ g' = Returned([g EXCEPT !.impr = "written"], g.recs)
             \/ /\ UNCHANGED impressions          \* no User row of that id
                /\ g' = Returned(g, g.recs)
             \/ /\ UNCHANGED impressions          \* nothing is committed
                /\ g' = OnImpressionError(g)
       \/ /\ ~(g.record_impression /\ g.recs # << >>)
          /\ UNCHANGED impressions
          /\ g' = Returned(g, g.recs)
    /\ GenUnchanged

\* lines 341-347 and 389-395: model_used = use_model and model is not None,
\* read from the global when the response is built
GenRespond ==
    /\ g.pc = "resp"
    /\ g' = [g EXCEPT !.pc = "done", !.model_used = (g.use_model /\ model # 0)]
    /\ UNCHANGED impressions /\ GenUnchanged

\* the request is over
GenDone ==
    /\ g.pc = "done"
    /\ g' = GNone
    /\ UNCHANGED impressions /\ GenUnchanged

\* The Product table either holds every served article or lacks article 1.
ProductTables == {ServedArticles, ServedArticles \ {1}}

ServeInitWith(pool) ==
    /\ \E st \in ImportStates :
         /\ model = st.m
         /\ model_loaded_at = st.at
         /\ nloads = st.m
    /\ rl = RlIdle
    /\ h = HNone
    /\ g = GNone
    /\ candPool = pool
    /\ served \in ProductTables
    /\ impressions = 0
    /\ DataIdle
    /\ cand = CandNone
    /\ JobsIdle
    /\ pure = Unapplied
    /\ race = NoRace
    /\ StoreIdle

GenNext ==
    \/ GenStart \/ GenLoadData \/ GenCandidates \/ GenFeatures
    \/ GenCheckModel \/ GenPredict \/ GenTopK \/ GenImpressions
    \/ GenRespond \/ GenDone

HealthNext ==
    \/ HealthReadModel \/ HealthTestLoadedAt \/ HealthReadLoadedAt
    \/ HealthReadFallback \/ HealthDone

ReloadNext == ReloadLoad \/ ReloadStamp \/ ReloadReturn

\* The serving process left aside by the specifications of the offline jobs.
ServeIdle ==
    /\ model = 0
    /\ model_loaded_at = 0
    /\ nloads = 0
    /\ rl = RlIdle
    /\ h = HNone
    /\ g = GNone
    /\ candPool = {}
    /\ served = {}
    /\ impressions = 0

(***************************************************************************)
(* model_train.py -- compute_mapk                                          *)
(***************************************************************************)
\* One is MetricScale: precisions, AP and recall are exact multiples of
\* 1/MetricScale for up to four rows per user and up to two users.
MetricScale == 1440

\* sort_values('pred_score', ascending=False) with the default quicksort:
\* rows of equal score come in any order
sort_values_desc(user_data) ==
    {s \in Shuffles(user_data) :
        \A i, j \in 1..Len(s) : i < j => s[i].pred_score >= s[j].pred_score}

head(s, k) == SubSeq(s, 1, Min(k, Len(s)))

RECURSIVE sum_precisions(_, _)
\* the loop of lines 438-442 over the first i rows of top_k
sum_precisions(top_k, i) ==
    IF i = 0 THEN [hits |-> 0, sum |-> 0]
    ELSE LET before == sum_precisions(top_k, i - 1)
         IN IF top_k[i].label = 1
            THEN [hits |-> before.hits + 1,
                  sum |-> before.sum + (MetricScale * (before.hits + 1)) \div i]
            ELSE before

\* lines 420-450: the metrics of one user at one K
user_metrics(user_data_sorted, k) ==
    LET actual_positives == {user_data_sorted[i].article_id :
                               i \in {j \in 1..Len(user_data_sorted) :
                                        user_data_sorted[j].label = 1}}
        n_positives == Cardinality(actual_positives)
        top_k == head(user_data_sorted, k)
        loop == sum_precisions(top_k, Len(top_k))
    IN [n_positives |-> n_positives,
        ap_at_k |-> IF n_positives > 0
                    THEN loop.sum \div Min(k, n_positives) ELSE 0,
        recall_at_k |-> IF n_positives > 0
                        THEN (MetricScale * loop.hits) \div n_positives ELSE 0]

RECURSIVE SumOver(_, _)
SumOver(f, D) ==
    IF D = {} THEN 0
    ELSE LET d == CHOOSE x \in D : TRUE IN f[d] + SumOver(f, D \ {d})

\* compute_mapk at one K: the results the function may return, with the
\* per-user lists of lines 449-450 kept by user
compute_mapk(val_df, k) ==
    LET user_ids == {r.user_id : r \in val_df}
        user_data(u) == {r \in val_df : r.user_id = u}
    IN {LET results == [u \in user_ids |-> user_metrics(order[u], k)]
            counted == {u \in user_ids : results[u].n_positives # 0}
            n_users == Cardinality(counted)
        IN [results |-> [u \in counted |-> results[u]],
            map |-> IF n_users = 0 THEN 0
                    ELSE SumOver([u \in counted |-> results[u].ap_at_k], counted)
                           \div n_users,
            recall |-> IF n_users = 0 THEN 0
                       ELSE SumOver([u \in counted |-> results[u].recall_at_k],
                                    counted) \div n_users,
            n_users |-> n_users] :
          order \in {o \in [user_ids -> UNION {sort_values_desc(user_data(u)) :
                                                  u \in user_ids}] :
                        \A u \in user_ids : o[u] \in sort_values_desc(user_data(u))}}

(***************************************************************************)
(* Specifications                                                          *)
(***************************************************************************)

\* The scorer over every candidate table, with reloads in between.
ServeInit == ServeInitWith(CandTables)

ServeNext == GenNext \/ ReloadNext

SpecServe == ServeInit /\ [][ServeNext]_vars

\* The singleton under concurrency: a scoring request, a health request and
\* a reload interleaved at every read and write of the two globals.
OneRowPool == {<<[article_id |-> 1, score |-> 1]>>}

ReloadInit == ServeInitWith(OneRowPool)

ConcurrentNext == GenNext \/ HealthNext \/ ReloadNext

SpecReload == ReloadInit /\ [][ConcurrentNext]_vars

\* Candidate retrieval over a growing transaction log, with the cache
\* directory kept between calls.
RetrievalInit ==
    /\ DataInitWith({{}}, CustomerChoices, {{ArticleRow(a) : a \in Items}})
    /\ cand = CandNone
    /\ JobsIdle
    /\ pure = Unapplied
    /\ race = NoRace
    /\ ServeIdle
    /\ StoreIdle

SpecRetrieval == RetrievalInit /\ [][RetrievalNext]_vars

\* The offline pipeline over a fixed log: candidates, features, training data.
TrainCustomerChoices == {(1 :> "18-25" @@ 2 :> "18-25"), (1 :> "nan" @@ 2 :> "18-25")}

TrainInit ==
    /\ DataInitWith(Logs, TrainCustomerChoices, ArticleChoices)
    /\ cand = CandNone
    /\ JobsIdle
    /\ pure = Unapplied
    /\ race = NoRace
    /\ ServeIdle
    /\ StoreIdle

SpecTrain == TrainInit /\ [][TrainNext]_vars

\* The shop and the For You endpoint over every sequence of requests.
StoreInit ==
    /\ StoreInitWith(ShopChoices)
    /\ DataIdle
    /\ cand = CandNone
    /\ JobsIdle
    /\ pure = Unapplied
    /\ race = NoRace
    /\ ServeIdle

SpecStore == StoreInit /\ [][StoreNext]_vars

\* The personalizer called for users with and without categories and for an
\* id without a User row, over carts and wishlists that fill and empty.
BlankPrefs == {Null, EmptyString, << <<>>, <<" ">>, <<>> >>}

ColdShops ==
    {[products |-> Catalog, users |-> [u \in StoreUsers |-> f]] :
        f \in BlankPrefs \cup PrefChoices}

ColdStartInit ==
    /\ StoreInitWith(ColdShops)
    /\ DataIdle
    /\ cand = CandNone
    /\ JobsIdle
    /\ pure = Unapplied
    /\ race = NoRace
    /\ ServeIdle

ColdStartNext ==
    \/ direct_call \/ ForYouRead
    \/ add_to_cart \/ remove_from_cart \/ clear_cart
    \/ add_to_wishlist \/ remove_from_wishlist

SpecColdStart == ColdStartInit /\ [][ColdStartNext]_vars

\* The orders of a client that may also send the empty string as its
\* client_order_id
OrdersInit ==
    /\ StoreInitWith({[products |-> Garments,
                       users |-> [u \in StoreUsers |-> Null]]})
    /\ DataIdle
    /\ cand = CandNone
    /\ JobsIdle
    /\ pure = Unapplied
    /\ race = NoRace
    /\ ServeIdle

OrdersNext ==
    \/ add_to_cart \/ remove_from_cart \/ clear_cart
    \/ checkout
    \/ buy_now_with(ClientOrderIds \cup {""})

SpecOrders == OrdersInit /\ [][OrdersNext]_vars

\* label_candidate_rows over identifiers with and without an underscore,
\* purchases before and inside the target window, and one or two candidates.
LabelIds == {1, 12}
LabelArticles == {1, 21}
LabelDates == {0, 5}
LabelTxns ==
    {T \in SUBSET [customer_id : LabelIds, article_id : LabelArticles,
                   t_dat : LabelDates] : Cardinality(T) <= 2}
LabelRow == {[user_id |-> u, article_id |-> StrId(a)] :
                u \in LabelIds, a \in LabelArticles}
LabelRows == {<<r>> : r \in LabelRow} \cup {<<r, q>> : r \in LabelRow, q \in LabelRow}

LabelInit ==
    /\ \E rows \in LabelRows, T \in LabelTxns, target_start \in {3, 5} :
         pure = [fn |-> "label_candidate_rows", applied |-> FALSE,
                 rows |-> rows, T |-> T, target_start |-> target_start,
                 target_end |-> 9, out |-> {}]
    /\ race = NoRace
    /\ DataIdle
    /\ cand = CandNone
    /\ candFile = NoCandFile /\ feat = NoFeat /\ train = NoTrain
    /\ ServeIdle
    /\ StoreIdle

apply_label_candidate_rows ==
    /\ pure.fn = "label_candidate_rows" /\ ~pure.applied
    /\ pure' = [pure EXCEPT !.applied = TRUE,
                            !.out = label_candidate_rows(
                                pure.rows, pure.T, pure.target_start,
                                pure.target_end)]
    /\ UNCHANGED notPure

SpecLabel == LabelInit /\ [][apply_label_candidate_rows]_vars

\* Everything but the function under application is at rest.
RestIdle ==
    /\ race = NoRace
    /\ DataIdle
    /\ cand = CandNone
    /\ candFile = NoCandFile /\ feat = NoFeat /\ train = NoTrain
    /\ ServeIdle
    /\ StoreIdle

\* sample_negatives applied to labelled tables of up to MaxSampleRows rows of
\* two users, with the ratios 0, 0.5, 1.0 and the default 4.0
SampleRatios == {0, 5, 10, 10 * NegPosRatio}
SampleTable(f) ==
    {[idx |-> i, user_id |-> f[i][1], label |-> f[i][2]] : i \in DOMAIN f}

SampleInit ==
    /\ \E n \in 1..MaxSampleRows :
         \E f \in [1..n -> {1, 2} \X {0, 1}], neg_pos_ratio \in SampleRatios :
           pure = [fn |-> "sample_negatives", applied |-> FALSE,
                   df |-> SampleTable(f), neg_pos_ratio |-> neg_pos_ratio,
                   out |-> {}]
    /\ RestIdle

apply_sample_negatives ==
    /\ pure.fn = "sample_negatives" /\ ~pure.applied
    /\ \E out \in sample_negatives(pure.df, pure.neg_pos_ratio) :
         pure' = [pure EXCEPT !.applied = TRUE, !.out = out]
    /\ UNCHANGED notPure

SpecSample == SampleInit /\ [][apply_sample_negatives]_vars

\* compute_mapk applied to validation tables of up to MaxValRows rows of two
\* users, two articles and two predicted scores, at K = 1..MaxValRows
ValRowChoices == ({1, 2} \X {1, 2}) \X ({0, 1} \X {1, 2})
ValTable(f) ==
    {[idx |-> i, user_id |-> f[i][1][1], article_id |-> f[i][1][2],
      label |-> f[i][2][1], pred_score |-> f[i][2][2]] : i \in DOMAIN f}

MapkInit ==
    /\ \E n \in 0..MaxValRows :
         \E f \in [1..n -> ValRowChoices], k \in 1..MaxValRows :
           pure = [fn |-> "compute_mapk", applied |-> FALSE,
                   val_df |-> ValTable(f), k |-> k, out |-> {}]
    /\ RestIdle

apply_compute_mapk ==
    /\ pure.fn = "compute_mapk" /\ ~pure.applied
    /\ \E out \in compute_mapk(pure.val_df, pure.k) :
         pure' = [pure EXCEPT !.applied = TRUE, !.out = out]
    /\ UNCHANGED notPure

SpecMapk == MapkInit /\ [][apply_compute_mapk]_vars

\* time_decay_score applied to two day counts x <= y, from below zero up to
\* the last tabulated day, with coefficients of either sign
DecayDays == -1..Len(InvSqrtTable)
Coefficients == -MaxCoefficient..MaxCoefficient
DecayInit ==
    /\ \E x \in DecayDays, y \in DecayDays, a \in Coefficients,
          b \in Coefficients, c \in {0, DecayC}, d \in Coefficients :
         /\ x <= y
         /\ pure = [fn |-> "time_decay_score", applied |-> FALSE, x |-> x,
                    y |-> y, a |-> a, b |-> b, c |-> c, d |-> d,
                    out |-> <<0, 0>>]
    /\ RestIdle

apply_time_decay_score ==
    /\ pure.fn = "time_decay_score" /\ ~pure.applied
    /\ pure' = [pure EXCEPT !.applied = TRUE,
                            !.out = <<time_decay_score(pure.x, pure.a, pure.b,
                                                       pure.c, pure.d),
                                      time_decay_score(pure.y, pure.a, pure.b,
                                                       pure.c, pure.d)>>]
    /\ UNCHANGED notPure

SpecDecay == DecayInit /\ [][apply_time_decay_score]_vars

\* recent_items applied to the logs of at most MaxTxns purchases, with both
\* windows and a reference date on or after the last purchase date
RecentMaxDates == {2, 9, 11}
RecentInit ==
    /\ \E user_id \in Users, T \in Logs, days \in {RecentDaysShort, RecentDaysLong},
          max_date \in RecentMaxDates :
         pure = [fn |-> "recent_items", applied |-> FALSE, user_id |-> user_id,
                 T |-> T, days |-> days, max_date |-> max_date, out |-> {}]
    /\ RestIdle

apply_recent_items ==
    /\ pure.fn = "recent_items" /\ ~pure.applied
    /\ pure' = [pure EXCEPT !.applied = TRUE,
                            !.out = recent_items(pure.user_id, pure.T,
                                                 pure.days, pure.max_date)]
    /\ UNCHANGED notPure

SpecRecent == RecentInit /\ [][apply_recent_items]_vars

\* bought_together and the seed articles of the blender, applied to logs of
\* at most MaxBtTxns purchases of MaxBtItems articles, and to the log of a
\* customer who bought the articles 1..n within the long window
MaxBtTxns == 4
MaxBtItems == 3
MaxSeedArticles == 11
BtKeys == [customer_id : Users, article_id : 1..MaxBtItems, t_dat : {9}]
            \cup {[customer_id |-> 1, article_id |-> 1, t_dat |-> 0]}
BtTopKs == {1, 2, BoughtTogetherK}

BulkLog(n) == {[customer_id |-> 1, article_id |-> a, t_dat |-> 9, copy |-> 1] : a \in 1..n}

BtState(item_id, T, top_k, user_id) ==
    [fn |-> "bought_together", applied |-> FALSE, item_id |-> item_id, T |-> T,
     top_k |-> top_k, user_id |-> user_id, out |-> {}, seeds |-> {}]

BoughtTogetherInit ==
    /\ \/ \E n \in 0..MaxBtTxns, item_id \in 1..MaxBtItems, top_k \in BtTopKs, user_id \in Users :
            \E f \in [1..n -> BtKeys] : pure = BtState(item_id, LogOf(f), top_k, user_id)
       \/ \E n \in (MaxSeedArticles - 2)..MaxSeedArticles, item_id \in {1, MaxSeedArticles}, user_id \in Users :
            pure = BtState(item_id, BulkLog(n), BoughtTogetherK, user_id)
    /\ RestIdle

\* the loop of get_candidates_for_user over user_recent_items[:10], and one
\* call of bought_together
apply_bought_together ==
    /\ pure.fn = "bought_together"
    /\ ~pure.applied
    /\ pure' = [pure EXCEPT !.applied = TRUE,
                            !.out = bought_together(pure.item_id, pure.T, pure.top_k),
                            !.seeds = user_recent_items(pure.user_id, pure.T, MaxDate(pure.T))]
    /\ UNCHANGED notPure

SpecBoughtTogether == BoughtTogetherInit /\ [][apply_bought_together]_vars

\* create_train_val_splits applied to a labelled frame of P positive and N
\* negative rows; the frame carries the unique index that read_csv,
\* concat(ignore_index=True) and reset_index(drop=True) give it
MaxSplitPos == 12
MaxSplitNeg == 11

SplitFrame(P, N) ==
    {[row |-> i, label |-> 1] : i \in 1..P} \cup {[row |-> P + i, label |-> 0] : i \in 1..N}

SplitInit ==
    /\ \E P \in 0..MaxSplitPos, N \in 0..MaxSplitNeg :
          pure = [fn |-> "create_train_val_splits", applied |-> FALSE,
                  df |-> SplitFrame(P, N), train |-> {}, val |-> {}]
    /\ RestIdle

apply_create_train_val_splits ==
    /\ pure.fn = "create_train_val_splits"
    /\ ~pure.applied
    /\ \E split \in create_train_val_splits(pure.df) :
          pure' = [pure EXCEPT !.applied = TRUE, !.train = split.train, !.val = split.val]
    /\ UNCHANGED notPure

SpecSplit == SplitInit /\ [][apply_create_train_val_splits]_vars

\* The For-You page of a user whose wishlist holds jeans, sneakers or a bag,
\* in a shop with MaxSimilarBags more bags like it
MaxSimilarBags == 7
SimilarBags ==
    {Product(10 + i, <<"a", "bag">>, 50, "Accessories", "img", "Black", {}) :
        i \in 1..MaxSimilarBags}
ForYouArticles == {1, 2, 6, 8}

ForYouInit ==
    /\ StoreInitWith({[products |-> Garments \cup SimilarBags,
                       users |-> [u \in StoreUsers |-> Null]]})
    /\ DataIdle
    /\ cand = CandNone
    /\ JobsIdle
    /\ pure = Unapplied
    /\ race = NoRace
    /\ ServeIdle

ForYouNext ==
    \/ get_for_you_recommendations \/ ForYouRead
    \/ add_to_wishlist_with(ForYouArticles)
    \/ remove_from_wishlist_with(ForYouArticles)

SpecForYou == ForYouInit /\ [][ForYouNext]_vars

\* POST /orders/checkout step by step, with the add_to_cart requests of the
\* same user served by other threads in between.  The handler's session
\* reads the cart, commits the order, then deletes the rows it read by
\* primary key and commits again.
CheckoutIdle ==
    [fn |-> "checkout", pc |-> "idle", user_id |-> 0, cart_items |-> {},
     order_id |-> 0, deleted |-> {}, status |-> 0]

checkoutFrame ==
    <<products, users, wishlist, purchases, foryou, served_similar,
      serveVars, dataVars, cand, jobVars, pure>>

\* lines 148-183: the cart rows are read and priced; 400 on an empty cart,
\* 404 on a row without product
CheckoutRead ==
    /\ race.pc = "idle"
    /\ Len(orders) < MaxOrders
    /\ \E user_id \in StoreUsers :
         LET cart_items == UserRows(cart, user_id)
         IN race' = IF cart_items = {}
                    THEN [CheckoutIdle EXCEPT !.pc = "done", !.user_id = user_id,
                                              !.status = 400]
                    ELSE IF \E c \in cart_items : ProductOf(products, c.article_id) = {}
                    THEN [CheckoutIdle EXCEPT !.pc = "done", !.user_id = user_id,
                                              !.status = 404]
                    ELSE [CheckoutIdle EXCEPT !.pc = "commit", !.user_id = user_id,
                                              !.cart_items = cart_items]
    /\ UNCHANGED <<cart, orders, checkoutFrame>>

\* lines 187-208: the order and its items, made of the rows read, are
\* committed
CheckoutCommitOrder ==
    /\ race.pc = "commit"
    /\ LET r == checkout_call(race.user_id, products, race.cart_items, orders)
       IN /\ orders' = r.orders
          /\ race' = [race EXCEPT !.pc = "clear", !.order_id = r.order_id]
    /\ UNCHANGED <<cart, checkoutFrame>>

\* lines 213-216: db.delete of every row read, by primary key, and the
\* second commit
CheckoutClearCart ==
    /\ race.pc = "clear"
    /\ LET deleted == {c \in cart : \E s \in race.cart_items :
                            c.user_id = s.user_id /\ c.article_id = s.article_id}
       IN /\ cart' = cart \ deleted
          /\ race' = [race EXCEPT !.pc = "done", !.deleted = deleted, !.status = 200]
    /\ UNCHANGED <<orders, checkoutFrame>>

\* lines 221-232: the response is returned
CheckoutReturn ==
    /\ race.pc = "done"
    /\ race' = CheckoutIdle
    /\ UNCHANGED <<cart, orders, checkoutFrame>>

CheckoutRaceInit ==
    /\ StoreInitWith({[products |-> Garments,
                       users |-> [u \in StoreUsers |-> Null]]})
    /\ DataIdle
    /\ cand = CandNone
    /\ JobsIdle
    /\ pure = Unapplied
    /\ race = CheckoutIdle
    /\ ServeIdle

CheckoutRaceNext ==
    \/ add_to_cart
    \/ CheckoutRead \/ CheckoutCommitOrder \/ CheckoutClearCart \/ CheckoutReturn

SpecCheckoutRace == CheckoutRaceInit /\ [][CheckoutRaceNext]_vars

\* The cart and order requests of a client that may send any integer as the
\* quantity of add_to_cart and buy_now
CartQtyInit ==
    /\ StoreInitWith({[products |-> Garments,
                       users |-> [u \in StoreUsers |-> Null]]})
    /\ DataIdle
    /\ cand = CandNone
    /\ JobsIdle
    /\ pure = Unapplied
    /\ race = NoRace
    /\ ServeIdle

CartQtyNext ==
    \/ add_to_cart_with((0 - 1)..MaxQty)
    \/ remove_from_cart \/ clear_cart
    \/ checkout \/ buy_now

SpecCartQty == CartQtyInit /\ [][CartQtyNext]_vars

(***************************************************************************)
(* retrieval.py lines 296-321 run by concurrent requests of one age bin:   *)
(* each request tests cache_file.exists(), then either reads the file or   *)
(* computes the table and writes it with to_csv, which truncates the file  *)
(* on open and flushes its rows in one or more pieces                      *)
(***************************************************************************)
Threads == 1..NumThreads

\* the rows of a table in the order to_csv writes them: by score, best
\* first, then by article
csv_order(tbl) ==
    CHOOSE s \in Shuffles(tbl) :
        \A i, j \in 1..Len(s) : i < j =>
            \/ s[i].score > s[j].score
            \/ s[i].score = s[j].score /\ s[i].article_id.a < s[j].article_id.a

RaceLogs == {T \in SUBSET {k @@ [copy |-> 1] : k \in TxnKeys} :
               Cardinality(T) \in 1..MaxTxns}

RaceInit ==
    /\ DataInitWith(RaceLogs, CustomerChoices, {{}})
    /\ \E age_bin \in AgeBins :
         race = [age_bin |-> age_bin,
                 th |-> [i \in Threads |->
                           [pc |-> "exists", how |-> "none", popular |-> {},
                            off |-> 0]]]
    /\ cand = CandNone
    /\ JobsIdle
    /\ pure = Unapplied
    /\ ServeIdle
    /\ StoreIdle

raceFrame == <<transactions, customers, articles, itemCache, serveVars, cand,
               jobVars, storeVars, pure>>

\* line 299: use_cache and cache_file.exists()
CacheExists(i) ==
    /\ race.age_bin # "none" /\ race.th[i].pc = "exists"
    /\ race' = [race EXCEPT !.th[i].pc =
                    IF popCache[race.age_bin].exists THEN "read_csv"
                    ELSE "popular_by_age"]
    /\ UNCHANGED <<popCache, raceFrame>>

\* line 301: pd.read_csv(cache_file) of the file as it is now; a file of
\* no bytes raises EmptyDataError
CacheReadCsv(i) ==
    /\ race.age_bin # "none" /\ race.th[i].pc = "read_csv"
    /\ race' = IF popCache[race.age_bin].rows = {}
               THEN [race EXCEPT !.th[i].pc = "EmptyDataError"]
               ELSE [race EXCEPT !.th[i].pc = "done", !.th[i].how = "read",
                                 !.th[i].popular =
                                     ReadCsv(popCache[race.age_bin].rows)]
    /\ UNCHANGED <<popCache, raceFrame>>

\* lines 303-313: popular_by_age; an empty table is not written
CachePopularByAge(i) ==
    /\ race.age_bin # "none" /\ race.th[i].pc = "popular_by_age"
    /\ LET popular == popular_by_age(race.age_bin, transactions, customers,
                                     PopularK, PopularWindow,
                                     MaxDate(transactions))
       IN race' = [race EXCEPT !.th[i].how = "computed",
                               !.th[i].popular = popular,
                               !.th[i].pc = IF popular = {} THEN "done"
                                            ELSE "to_csv"]
    /\ UNCHANGED <<popCache, raceFrame>>

\* line 315, to_csv opening the file for writing: the file exists and has
\* no bytes
CacheToCsvOpen(i) ==
    /\ race.age_bin # "none" /\ race.th[i].pc = "to_csv"
    /\ popCache' = [popCache EXCEPT ![race.age_bin] =
                        [exists |-> TRUE, rows |-> {}]]
    /\ race' = [race EXCEPT !.th[i].pc = "flush", !.th[i].off = 0]
    /\ UNCHANGED raceFrame

\* line 315, to_csv flushing its next rows at its own offset; the handle
\* is closed after the last row
CacheToCsvFlush(i) ==
    /\ race.age_bin # "none" /\ race.th[i].pc = "flush"
    /\ LET rows == csv_order(race.th[i].popular)
       IN \E n \in (race.th[i].off + 1)..Len(rows) :
            /\ popCache' = [popCache EXCEPT ![race.age_bin].rows =
                                @ \cup {rows[j] : j \in (race.th[i].off + 1)..n}]
            /\ race' = [race EXCEPT !.th[i].off = n,
                                    !.th[i].pc = IF n = Len(rows) THEN "done"
                                                 ELSE "flush"]
    /\ UNCHANGED raceFrame

RaceNext ==
    \E i \in Threads :
        \/ CacheExists(i)
        \/ CacheReadCsv(i)
        \/ CachePopularByAge(i)
        \/ CacheToCsvOpen(i)
        \/ CacheToCsvFlush(i)

SpecCacheRace == RaceInit /\ [][RaceNext]_vars

(***************************************************************************)
(* Claims about the serving-time scorer and the singleton                  *)
(***************************************************************************)

GenOver == g.pc \in {"resp", "done"}

\* C1 (as stated): whenever candidate generation or feature building raised,
\* the call returns the empty list.  Calls that a later database lookup
\* turned into a 500 are left out, so a violation is a call that returned a
\* non-empty list after a feature-building failure.
C1_FailureGivesEmptyList ==
    (GenOver /\ (g.cand_failed \/ g.feats = "fallback") /\ g.err = "none")
        => (g.outcome = "returned" /\ g.recs = << >>)

\* C1 (amended): a failure of candidate generation returns the empty list;
\* a failure of feature building is swallowed, the candidate table stands in
\* for the feature table, and the call returns the enriched top k of it; the
\* only error such a call can still raise is that of a product lookup.
C1_CandidateFailureEmpty_FeatureFailureFallsBack ==
    GenOver =>
        /\ g.cand_failed => (g.outcome = "returned" /\ g.recs = << >>)
        /\ (g.feats = "fallback" /\ g.err = "none") =>
              /\ g.outcome = "returned"
              /\ Len(g.df) = Len(g.cands)
              /\ {r.article_id : r \in Range(g.df)} =
                 {r.article_id : r \in Range(g.cands)}
              /\ g.recs = Enrich(g.df, g.k, served)
        /\ (g.feats = "fallback" /\ g.outcome = "raised") => g.err = "db"

C1_Witness ==
    /\ g.pc = "done" /\ g.feats = "fallback"
    /\ g.outcome = "returned" /\ g.recs # << >>

\* C2 (as stated): no reader sees a partially applied reload: a scoring
\* request predicts with the model it tested at line 198, and the model and
\* the model_loaded_at reported by one health response are of the same load.
C2_ReloadAtomicForReaders ==
    /\ (g.vpredict # 0 => g.vpredict = g.vcheck)
    /\ (h.pc = "done" =>
           /\ h.seen_model = (IF h.at_set THEN h.loaded_at ELSE 0)
           /\ h.seen_model2 = h.seen_model)

(***************************************************************************)
(* Claims about candidate retrieval                                        *)
(***************************************************************************)

\* the pivot row a returned row was cut from
PivotOf(id) == CHOOSE p \in cand.pivot : p.article_id = id

CandRowIds == 1..Len(cand.rows)

\* the place of a rule among the pivot's columns
ColPos(c) == CHOOSE i \in 1..Len(RuleOrder) : RuleOrder[i] = c

\* the denominator the normalised numerators of the last call are over
NormDen == IF Cardinality(cand.pivot) <= 1 THEN 1
           ELSE 2 * (Cardinality(cand.pivot) - 1)

\* C4 (as stated): the reason of every returned candidate is the rule whose
\* quantile-normalised column is largest in the candidate's row, the first
\* such column on a tie.
C4_ReasonIsArgmaxOfNormalized ==
    \A i \in CandRowIds :
        LET p == PivotOf(cand.rows[i].article_id)
        IN \E k \in 1..Len(p.cols) :
             /\ cand.rows[i].reason = p.cols[k]
             /\ \A j \in 1..Len(p.cols) : p.norm[p.cols[j]] <= p.norm[p.cols[k]]
             /\ \A j \in 1..(k - 1) : p.norm[p.cols[j]] < p.norm[p.cols[k]]

\* C4 (amended): the reason of every returned candidate is the rule whose
\* raw (un-normalised) pivoted score is largest in the candidate's row, and
\* on a tie the rule that comes first in the alphabetical order of the
\* pivot's columns.
C4_ReasonIsArgmaxOfRaw ==
    \A i \in CandRowIds :
        LET id == cand.rows[i].article_id
            r == cand.rows[i].reason
        IN /\ HasRule(cand.all, r)
           /\ \A c \in Range(RuleOrder) :
                HasRule(cand.all, c) =>
                  /\ PivotValue(cand.all, id, c) <= PivotValue(cand.all, id, r)
                  /\ PivotValue(cand.all, id, c) = PivotValue(cand.all, id, r)
                       => ColPos(r) <= ColPos(c)

\* A returned candidate whose raw scores name the cohort's popularity while
\* its normalised scores name the long recency window.
C4_Witness ==
    \E i \in CandRowIds :
        LET p == PivotOf(cand.rows[i].article_id)
        IN /\ cand.rows[i].reason = "popular_age"
           /\ reason_normalized(p) = "recent_long"

OnlyRecentShort ==
    /\ cand.known
    /\ cand.user_dates # {}
    /\ \A d \in cand.user_dates : cand.max_date - d <= RecentDaysShort
    /\ ~HasRule(cand.all, "popular_age")
    /\ ~HasRule(cand.all, "bought_together")

\* C6 (as stated): for such a user every returned candidate has the short
\* recency rule as its reason.
C6_ReasonIsRecentShort ==
    OnlyRecentShort => \A i \in CandRowIds : cand.rows[i].reason = "recent_short"

\* C6 (amended): for such a user every returned candidate carries scores of
\* the two recency rules only, the two are equal, and the reason is the
\* long recency rule, which comes first of the two; no candidate is
\* attributed to the popular-by-age or the bought-together rule.
C6_ReasonIsRecentLongOnTie ==
    OnlyRecentShort =>
        \A i \in CandRowIds :
            LET js == cand.rows[i].rule_scores_json
            IN /\ DOMAIN js = {"recent_long", "recent_short"}
               /\ js["recent_long"] = js["recent_short"]
               /\ js["recent_short"] > 0
               /\ cand.rows[i].reason = "recent_long"

C6_Witness == OnlyRecentShort /\ cand.rows # << >>

(***************************************************************************)
(* Claims about the offline pipeline                                       *)
(***************************************************************************)

\* C3: the training data has no leakage: the log the labelled rows' features
\* were computed from, and the log their candidates were retrieved from, both
\* end strictly before target_start, so no purchase of the target window is
\* in either.
C3_NoLeakage ==
    (train.exists /\ train.train \cup train.val # {}) =>
        /\ train.feature_max_date < train.target_start
        /\ train.candidate_max_date < train.target_start

FeatureColumns ==
    {"user_total_purchases", "user_recency_days", "item_popularity_7d",
     "item_popularity_30d", "item_price_mean_30d", "item_department_no",
     "item_gender_tag", "recent_interaction_flag_7d",
     "co_purchase_count_with_last3", "retrieval_recent_score",
     "retrieval_bought_together_score", "retrieval_popular_age_score"}

\* C7: build_features_for_candidates returns as many rows as it was given
\* candidates, and no cell of a returned row is null: no numeric feature is
\* NaN and user_age_bin is a label.
C7_OneRowPerCandidateNoNull ==
    feat.exists =>
        /\ Len(feat.rows) = Len(feat.input)
        /\ \A i \in 1..Len(feat.rows) :
             /\ \A c \in FeatureColumns : feat.rows[i][c] # NaN
             /\ feat.rows[i].user_age_bin # "nan"

(***************************************************************************)
(* Claims about the activity-based personalizer                            *)
(***************************************************************************)

\* The article is in a cart row, a wishlist row or an order item of the user
InActivity(user_id, a) ==
    \/ \E c \in cart : c.user_id = user_id /\ c.article_id = a
    \/ \E w \in wishlist : w.user_id = user_id /\ w.article_id = a
    \/ \E i \in 1..Len(orders) :
          /\ orders[i].user_id = user_id
          /\ \E it \in orders[i].items : it.article_id = a

ArticleIds ==
    CartArticles \cup WishArticles \cup BuyArticles
    \cup {p.article_id : p \in products}

HasActivity(user_id) == \E a \in ArticleIds : InActivity(user_id, a)

\* C8: over every sequence of cart, wishlist, checkout and buy-now requests,
\* a For You request takes the cold-start (category) path exactly when the
\* user's cart rows, wishlist rows and order items hold no article at that
\* request; nothing of an earlier request decides it, so a request made after
\* the activity has been removed is answered from the preferred categories.
C8_ColdStartIffNoActivityAtCall ==
    foryou # NoResponse =>
        (foryou.path = "category" <=> ~HasActivity(foryou.user_id))

\* An earlier request took the activity path, the cart has since been emptied
\* (nothing was wished for or ordered), and this request got category items.
C8_Witness ==
    /\ foryou # NoResponse
    /\ served_similar
    /\ cart = {} /\ wishlist = {} /\ orders = <<>>
    /\ foryou.path = "category"
    /\ foryou.recommendations # {}

\* C9: for a user with at least one activity article, no returned item is an
\* article of the user's cart, wishlist or order items.
C9_NoActivityArticleReturned ==
    (foryou # NoResponse /\ HasActivity(foryou.user_id)) =>
        \A r \in foryou.recommendations :
            ~InActivity(foryou.user_id, r.article_id)

\* Two activity articles that are similar to each other (same category, same
\* color, prices in range), and a non-empty answer with more than one anchor.
C9_Witness ==
    /\ foryou # NoResponse
    /\ InActivity(foryou.user_id, 1)
    /\ InActivity(foryou.user_id, 2)
    /\ foryou.recommendations # {}
    /\ Cardinality({r.source_article_id : r \in foryou.recommendations}) > 1

\* C10: for a user with no activity and a non-empty preferred_categories
\* field, the answer has at most 20 items, each of a preferred category and
\* with a non-empty image_path.
C10_ColdStartItemsArePreferredWithImage ==
    (/\ foryou # NoResponse
     /\ ~HasActivity(foryou.user_id)
     /\ users[foryou.user_id] # Null
     /\ users[foryou.user_id] # EmptyString) =>
        /\ foryou.count <= 20
        /\ Cardinality(foryou.recommendations) <= 20
        /\ \A r \in foryou.recommendations :
              /\ <<r.product_group_name>> \in Range(users[foryou.user_id])
              /\ r.image_path # None
              /\ r.image_path # ""

\* More than 20 catalog rows match the preferred category and 20 are returned.
C10_Witness ==
    /\ foryou # NoResponse
    /\ ~HasActivity(foryou.user_id)
    /\ users[foryou.user_id] # Null
    /\ Cardinality({p \in products :
            <<p.product_group_name>> \in Range(users[foryou.user_id])}) > 20
    /\ foryou.count = 20

\* The user has no User row, or a preferred_categories field holding no
\* category: NULL, the empty string, or separators and blanks only
NoCategories(user_id) ==
    \/ user_id \notin DOMAIN users
    \/ users[user_id] = Null
    \/ \A i \in 1..Len(users[user_id]) :
          \A j \in 1..Len(users[user_id][i]) : users[user_id][i][j] = " "

\* C11: for a user with no activity and no preferred category (field NULL,
\* empty or separators only), and for an id without a User row, the
\* personalizer answers with the empty list.
C11_NoCategoriesGivesEmptyList ==
    (/\ foryou # NoResponse
     /\ ~HasActivity(foryou.user_id)
     /\ NoCategories(foryou.user_id)) =>
        /\ foryou.path = "category"
        /\ foryou.recommendations = {}
        /\ foryou.count = 0

\* An answer for a field of separators only, and one for an unknown id, with
\* a catalog full of imaged products.
C11_Witness ==
    /\ foryou # NoResponse
    /\ \E p \in products : HasImage(p)
    /\ foryou.recommendations = {}
    /\ \/ foryou.user_id \notin DOMAIN users
       \/ /\ foryou.user_id \in DOMAIN users
          /\ Len(users[foryou.user_id]) > 1
          /\ NoCategories(foryou.user_id)

(***************************************************************************)
(* Claims about the scorer without a model and about impressions           *)
(***************************************************************************)

\* C12: when the model global is None at the test of line 198, or the caller
\* passed use_model false, a request that returns a list ranked it by the
\* retrieval score: the items are in non-increasing score order and each
\* item carries the score of its candidate row.  The only errors a request
\* can raise are those of the data load and of the database, never the
\* absence of the model.
C12_NoModelRanksByRetrievalScore ==
    /\ (g.outcome = "returned" /\ g.df # << >>
           /\ (g.vcheck = 0 \/ ~g.use_model)) =>
          /\ g.scored_by = "retrieval"
          /\ \A i, j \in DOMAIN g.recs :
                i < j => g.recs[i].score >= g.recs[j].score
          /\ \A i \in DOMAIN g.recs :
                \E c \in Range(g.cands) :
                   /\ c.article_id = g.recs[i].article_id
                   /\ c.score = g.recs[i].score
    /\ g.outcome = "raised" => g.err \in {"load", "db"}

\* The import loaded no model and no reload has loaded one; the caller asked
\* for the model and got two items of different retrieval scores.
C12_Witness ==
    /\ model = 0 /\ nloads = 0
    /\ g.use_model
    /\ g.outcome = "returned"
    /\ Len(g.recs) = 2
    /\ g.recs[1].score > g.recs[2].score

\* C13: when record_impression is true and writing the impression rows
\* raises, the request still returns the list it built, the list a request
\* with record_impression false returns from the same ranked table, and
\* raises nothing; no impression row is left behind.
C13_ImpressionFailureKeepsList ==
    g.impr = "failed" =>
        /\ g.record_impression
        /\ g.outcome = "returned"
        /\ g.err = "none"
        /\ g.recs # << >>
        /\ g.recs = Enrich(g.df, g.k, served)

\* A failed impression write on a list of two items.
C13_Witness ==
    /\ g.impr = "failed"
    /\ g.pc = "done"
    /\ Len(g.recs) = 2

(***************************************************************************)
(* Claims about the training-data functions                                *)
(***************************************************************************)

\* C14 (as stated): label_candidate_rows gives a candidate row the label 1
\* exactly when a purchase of the same user_id and the same article_id is
\* dated inside [target_start, target_end], and 0 otherwise, whatever the
\* identifier strings are.
C14_LabelIffExactPairInWindow ==
    (pure.fn = "label_candidate_rows" /\ pure.applied) =>
        \A r \in pure.out :
            r.label = IF \E t \in pure.T :
                            /\ t.customer_id = r.user_id
                            /\ t.article_id = r.article_id.a
                            /\ t.t_dat >= pure.target_start
                            /\ t.t_dat <= pure.target_end
                      THEN 1 ELSE 0

\* C15: sample_negatives keeps every positive row.  When the target
\* int(P * ratio) is below the number N of negatives, the kept rows are rows
\* of the input and the number of kept negatives is within one half per user
\* with negatives of the target; when the target is at least N, or there is
\* no positive, the input comes back unchanged.
C15_SampleKeepsPositivesAndTarget ==
    (pure.fn = "sample_negatives" /\ pure.applied) =>
        LET positives == {r \in pure.df : r.label = 1}
            negatives == {r \in pure.df : r.label = 0}
            target == (Cardinality(positives) * pure.neg_pos_ratio) \div 10
            kept == Cardinality({r \in pure.out : r.label = 0})
            users_with_negatives == Cardinality({r.user_id : r \in negatives})
        IN /\ positives \subseteq pure.out
           /\ pure.out \subseteq pure.df
           /\ (positives # {} /\ target < Cardinality(negatives)) =>
                  /\ 2 * (kept - target) <= users_with_negatives
                  /\ 2 * (target - kept) <= users_with_negatives
           /\ (positives = {} \/ target >= Cardinality(negatives)) =>
                  pure.out = pure.df

C15_Witness ==
    /\ pure.fn = "sample_negatives" /\ pure.applied
    /\ {r \in pure.df : r.label = 1} # {}
    /\ Cardinality({r.user_id : r \in pure.df \ pure.out}) = 2
    /\ Cardinality({r \in pure.out : r.label = 0})
         # (Cardinality({r \in pure.df : r.label = 1}) * pure.neg_pos_ratio) \div 10


(***************************************************************************)
(* Claims about the evaluation metrics                                     *)
(***************************************************************************)
PositiveRows(u) == {r \in pure.val_df : r.user_id = u /\ r.label = 1}

\* AP@K and Recall@K of one user by the formulas, the user's positives being
\* the user's positive rows
user_metrics_by_rows(user_data_sorted, k) ==
    LET n_positives == Cardinality({i \in 1..Len(user_data_sorted) :
                                      user_data_sorted[i].label = 1})
        top_k == head(user_data_sorted, k)
        loop == sum_precisions(top_k, Len(top_k))
    IN [n_positives |-> n_positives,
        ap_at_k |-> IF n_positives > 0
                    THEN loop.sum \div Min(k, n_positives) ELSE 0,
        recall_at_k |-> IF n_positives > 0
                        THEN (MetricScale * loop.hits) \div n_positives ELSE 0]

\* C16: for each user with at least one positive row and each K, AP@K and
\* Recall@K are the values of the formulas over the user's rows in score
\* order with the user's number of positives, both lie in [0, 1], and the
\* reported MAP@K and Recall@K are the means over exactly the users with a
\* positive row.
C16_MapkFormulaAndRange ==
    (pure.fn = "compute_mapk" /\ pure.applied) =>
        LET counted == {u \in {r.user_id : r \in pure.val_df} : PositiveRows(u) # {}}
        IN /\ DOMAIN pure.out.results = counted
           /\ pure.out.n_users = Cardinality(counted)
           /\ \A u \in counted :
                 /\ pure.out.results[u].ap_at_k \in 0..MetricScale
                 /\ pure.out.results[u].recall_at_k \in 0..MetricScale
                 /\ \E s \in sort_values_desc({r \in pure.val_df : r.user_id = u}) :
                       /\ pure.out.results[u].ap_at_k
                            = user_metrics_by_rows(s, pure.k).ap_at_k
                       /\ pure.out.results[u].recall_at_k
                            = user_metrics_by_rows(s, pure.k).recall_at_k
           /\ \A u \in counted :
                 \A s \in sort_values_desc({r \in pure.val_df : r.user_id = u}) :
                   /\ (Cardinality(PositiveRows(u)) = 1 /\ s[1].label = 1)
                        => user_metrics(s, pure.k).ap_at_k = MetricScale
                   /\ (Cardinality(PositiveRows(u)) = 1 /\ Len(s) = pure.k
                         /\ s[Len(s)].label = 1)
                        => user_metrics(s, pure.k).ap_at_k * pure.k = MetricScale
           /\ counted # {} =>
                 /\ pure.out.map * Cardinality(counted)
                      = SumOver([u \in counted |-> pure.out.results[u].ap_at_k], counted)
                 /\ pure.out.recall * Cardinality(counted)
                      = SumOver([u \in counted |-> pure.out.results[u].recall_at_k],
                                counted)

(***************************************************************************)
(* Claims about the scoring primitives                                     *)
(***************************************************************************)
\* C17: with the default coefficients time_decay_score is non-increasing in
\* x for x > 0; with any coefficients the result is never negative; x <= 0
\* gives the value at 0.01 (10.999 with the default coefficients).
C17_DecayMonotoneAndNonNegative ==
    (pure.fn = "time_decay_score" /\ pure.applied) =>
        /\ pure.out[1] >= 0 /\ pure.out[2] >= 0
        /\ (pure.a = 1 /\ pure.b = 1 /\ pure.c = 1 /\ pure.d = 0) =>
              /\ (0 < pure.x) => pure.out[1] >= pure.out[2]
              /\ pure.x <= 0 => pure.out[1] = 10999
        /\ (pure.x <= 0 /\ pure.y <= 0) => pure.out[1] = pure.out[2]

C17_Witness ==
    /\ pure.fn = "time_decay_score" /\ pure.applied
    /\ pure.a = 1 /\ pure.b = 1 /\ pure.c = 1 /\ pure.d = 0
    /\ 0 < pure.x /\ pure.x < pure.y
    /\ pure.out[1] > pure.out[2]

C17_WitnessClamped ==
    /\ pure.fn = "time_decay_score" /\ pure.applied
    /\ time_decay_score_unclamped(pure.x, pure.a, pure.b, pure.c, pure.d) < 0
    /\ pure.out[1] = 0

(***************************************************************************)
(* Claims about the cache files under concurrent requests                  *)
(***************************************************************************)
TableValues(tbl) == {<<r.article_id.a, r.score>> : r \in tbl}

\* C18: whatever the interleaving of the requests that miss one cache key,
\* every writer writes the same table, and every request that finds the
\* file present reads the complete table a fresh computation would produce,
\* never a file that is partially written.
C18_CacheRaceReadsCompleteTable ==
    race.age_bin # "none" =>
        LET fresh == popular_by_age(race.age_bin, transactions, customers,
                                    PopularK, PopularWindow,
                                    MaxDate(transactions))
        IN \A i \in Threads :
             /\ race.th[i].pc # "EmptyDataError"
             /\ race.th[i].how = "computed" => race.th[i].popular = fresh
             /\ race.th[i].how = "read" =>
                    TableValues(race.th[i].popular) = TableValues(fresh)

\* the part of C18 about the writers alone
C18_WritersWriteSameTable ==
    race.age_bin # "none" =>
        \A i, j \in Threads :
            (race.th[i].how = "computed" /\ race.th[j].how = "computed")
                => race.th[i].popular = race.th[j].popular

(***************************************************************************)
(* Claims about the orders                                                 *)
(***************************************************************************)
UsedBy(user_id, client_order_id) ==
    {i \in 1..Len(orders) : /\ orders[i].client_order_id = client_order_id
                            /\ orders[i].user_id = user_id}

\* C19: a buy_now request of a user that carries a client_order_id one of the
\* user's orders already carries returns the order_id of that first order
\* and changes no Order, OrderItem, purchase interaction or cart row.
C19_BuyNowReplayReturnsFirstOrder ==
    \A user_id \in StoreUsers, article_id \in BuyArticles, qty \in 1..MaxQty,
       client_order_id \in {"", "k1"} :
        UsedBy(user_id, client_order_id) # {} =>
            LET r == buy_now_call(user_id, article_id, qty, client_order_id,
                                  products, cart, orders, purchases)
            IN /\ r.status = 201
               /\ r.order_id = orders[SetMin(UsedBy(user_id, client_order_id))].id
               /\ r.orders = orders
               /\ r.purchases = purchases
               /\ r.cart = cart

\* C20: checkout on a non-empty cart creates exactly one order; its items
\* are the cart's (article_id, qty) rows at the current product price, its
\* total_amount is the sum of price * qty, the user's cart is empty
\* afterwards and the order is in the user's order history.
C20_CheckoutMakesOrderOfCart ==
    \A user_id \in StoreUsers :
        UserRows(cart, user_id) # {} =>
            LET r == checkout_call(user_id, products, cart, orders)
                new_order == r.orders[Len(r.orders)]
                current(article_id) ==
                    (CHOOSE p \in products : p.article_id = article_id).price
            IN /\ r.status = 200
               /\ Len(r.orders) = Len(orders) + 1
               /\ SubSeq(r.orders, 1, Len(orders)) = orders
               /\ new_order.user_id = user_id /\ new_order.id = r.order_id
               /\ new_order.items =
                    {[article_id |-> c.article_id, qty |-> c.qty,
                      price |-> current(c.article_id)] :
                        c \in UserRows(cart, user_id)}
               /\ new_order.total_amount =
                    SumOver([c \in UserRows(cart, user_id) |->
                                current(c.article_id) * c.qty],
                            UserRows(cart, user_id))
               /\ UserRows(r.cart, user_id) = {}
               /\ r.cart \subseteq cart
               /\ \E i \in 1..Len(get_orders(user_id, r.orders)) :
                    get_orders(user_id, r.orders)[i] = new_order

\* a cart of two rows has been checked out
C20_Witness ==
    /\ Len(orders) >= 1
    /\ purchases = 0
    /\ Cardinality(orders[Len(orders)].items) = 2
    /\ UserRows(cart, orders[Len(orders)].user_id) = {}
    /\ orders[Len(orders)].total_amount = 100 * 1 + 120 * 2

(***************************************************************************)
(* Claims about the ranked list and the candidate rules                    *)
(***************************************************************************)
\* a scored request has returned its list
ScoredAndReturned ==
    g.outcome = "returned" /\ g.scored_by # "none" /\ g.pc \in {"resp", "done"}

\* C21: generate_recommendations returns exactly min(K, number of
\* candidates) items, the candidates of highest active score, in
\* non-increasing score order.
C21_ReturnsTopKByActiveScore ==
    ScoredAndReturned =>
        /\ Len(g.recs) = Min(g.k, Len(g.cands))
        /\ \A i, j \in 1..Len(g.recs) : i < j => g.recs[i].score >= g.recs[j].score
        /\ \A i \in 1..Len(g.recs) : \A r \in 1..Len(g.df) :
              (\A j \in 1..Len(g.recs) : g.recs[j].article_id # g.df[r].article_id)
                  => g.df[r].ml_score <= g.recs[i].score

\* C22: get_candidates_for_user returns at most top_n rows in
\* non-increasing combined-score order, every article at most once, and no
\* omitted candidate has a strictly higher combined score than a returned
\* one.
C22_TopNDistinctArticles ==
    cand.known =>
        /\ Len(cand.rows) <= cand.top_n
        /\ \A i, j \in 1..Len(cand.rows) :
              i < j => cand.rows[i].score >= cand.rows[j].score
        /\ \A i, j \in 1..Len(cand.rows) :
              i # j => cand.rows[i].article_id.a # cand.rows[j].article_id.a
        /\ \A q \in cand.pivot :
              (\A i \in 1..Len(cand.rows) : cand.rows[i].article_id # q.article_id)
                  => \A i \in 1..Len(cand.rows) : q.score <= cand.rows[i].score

\* the days since the user's purchases of an article inside the window
DaysSince(a) ==
    {pure.max_date - t.t_dat :
        t \in {r \in pure.T : /\ r.customer_id = pure.user_id
                              /\ r.article_id = a
                              /\ pure.max_date - r.t_dat <= pure.days}}

\* C23: recent_items returns exactly one row per article the user bought
\* within the window, scored with the time decay of the article's most
\* recent purchase; an article bought only outside the window is absent.
C23_RecentItemsMostRecentDecay ==
    (pure.fn = "recent_items" /\ pure.applied) =>
        /\ \A a \in Items :
              Cardinality({r \in pure.out : r.article_id.a = a})
                  = IF DaysSince(a) # {} THEN 1 ELSE 0
        /\ \A r \in pure.out :
              /\ r.article_id.a \in Items
              /\ r.score = time_decay_score(SetMin(DaysSince(r.article_id.a)),
                                            DecayA, DecayB, DecayC, DecayD)

\* an article bought twice inside the 3-day window, two days ago and today,
\* is scored by today's purchase
C23_Witness ==
    /\ pure.fn = "recent_items" /\ pure.applied
    /\ pure.days = RecentDaysShort
    /\ \E r \in pure.out :
          /\ DaysSince(r.article_id.a) = {0, 2}
          /\ r.score = 10999

\* the example of the specification: of a purchase two days old and one
\* eleven days old, only the first is returned, with time_decay_score(2)
C23_WitnessExample ==
    /\ pure.fn = "recent_items" /\ pure.applied
    /\ {pure.max_date - t.t_dat : t \in pure.T} = {2, 11}
    /\ Cardinality({t.article_id : t \in pure.T}) = 2
    /\ {t.customer_id : t \in pure.T} = {pure.user_id}
    /\ \E r \in pure.out : pure.out = {r} /\ r.score = 1526

\* C24: bought_together never returns the seed article; it returns at most
\* top_k articles, one row each, none of them bought less often by the
\* buyers of the seed than an article it leaves out; each is scored
\* count / max_count, so the scores lie in (0, 1] and the best is 1; the
\* result is empty exactly when nobody bought the seed or its buyers bought
\* nothing else; the blender seeds it with at most 10 articles, all of them
\* bought by the user within the long window.
SeedBuyers(T, item_id) == {t.customer_id : t \in {r \in T : r.article_id = item_id}}

CoCount(T, item_id, a) ==
    Cardinality({t \in T : t.customer_id \in SeedBuyers(T, item_id) /\ t.article_id = a})

CoArticles(T, item_id) ==
    {t.article_id : t \in {r \in T : r.customer_id \in SeedBuyers(T, item_id)}} \ {item_id}

C24_BoughtTogetherCoPurchases ==
    (pure.fn = "bought_together" /\ pure.applied) =>
      LET T == pure.T
          seed == pure.item_id
          co == CoArticles(T, seed)
          kept == {a \in co : \E r \in pure.out : r.article_id = StrId(a)}
      IN /\ \A r \in pure.out :
              /\ r.article_id # StrId(seed)
              /\ \E a \in co : r.article_id = StrId(a)
              /\ r.score > 0 /\ r.score <= 1000
              /\ \A q \in pure.out : q.article_id = r.article_id => q = r
         /\ Cardinality(pure.out) <= pure.top_k
         /\ Cardinality(pure.out) = IF Cardinality(co) <= pure.top_k THEN Cardinality(co) ELSE pure.top_k
         /\ \A a \in kept, b \in co \ kept : CoCount(T, seed, a) >= CoCount(T, seed, b)
         /\ \A a \in kept : \A r \in pure.out :
              r.article_id = StrId(a) =>
                r.score = (1000 * CoCount(T, seed, a)) \div SetMax({CoCount(T, seed, b) : b \in co})
         /\ pure.out # {} => \E r \in pure.out : r.score = 1000
         /\ (pure.out = {}) <=> (SeedBuyers(T, seed) = {} \/ co = {})
         /\ Cardinality(pure.seeds) <= 10
         /\ \A a \in pure.seeds : \E t \in T : /\ t.customer_id = pure.user_id
                                                /\ t.article_id = a
                                                /\ t.t_dat >= MaxDate(T) - RecentDaysLong

\* the seed was bought together with two other articles of different
\* counts and only the more frequent one is returned
C24_Witness ==
    /\ pure.fn = "bought_together" /\ pure.applied
    /\ pure.top_k = 1
    /\ Cardinality(CoArticles(pure.T, pure.item_id)) = 2
    /\ \E r \in pure.out : pure.out = {r} /\ r.score = 1000
    /\ \E a \in CoArticles(pure.T, pure.item_id) : CoCount(pure.T, pure.item_id, a) = 2

\* the user bought more than 10 articles within the long window and the
\* loop ran for 10 of them
C24_WitnessSeedCap ==
    /\ pure.fn = "bought_together" /\ pure.applied
    /\ Cardinality({t.article_id : t \in {r \in pure.T : r.customer_id = pure.user_id}}) > 10
    /\ Cardinality(pure.seeds) = 10
    /\ Cardinality(pure.out) = 10

\* C25: create_train_val_splits partitions its input: every input row is in
\* exactly one of train and validation, and the validation set holds
\* floor(val_fraction * P) of the P positive rows and floor(val_fraction * N)
\* of the N negative rows, so that the positive and negative counts of the
\* validation set are within one row of val_fraction times the input's.
LabelCount(df, l) == Cardinality({r \in df : r.label = l})

C25_SplitPartitionsStratified ==
    (pure.fn = "create_train_val_splits" /\ pure.applied) =>
      /\ pure.train \cup pure.val = pure.df
      /\ pure.train \cap pure.val = {}
      /\ \A l \in {0, 1} :
           LET n == LabelCount(pure.df, l)
               v == LabelCount(pure.val, l)
           IN /\ v = (n * ValFractionPct) \div 100
              /\ 100 * v <= ValFractionPct * n
              /\ ValFractionPct * n < 100 * (v + 1)
              /\ LabelCount(pure.train, l) = n - v

\* a frame with enough rows of both labels for the validation set to
\* receive a positive and a negative row
C25_Witness ==
    /\ pure.fn = "create_train_val_splits" /\ pure.applied
    /\ LabelCount(pure.val, 1) = 1
    /\ LabelCount(pure.val, 0) = 1
    /\ LabelCount(pure.train, 1) > 9

\* C26 (as stated): for a user with N unique activity products the For-You
\* response holds 5 similar products for each of them, N x 5 in total.
RecsOf(source_id) == {r \in foryou.recommendations : r.source_article_id = source_id}

C27_ModelUsedIffModelScored ==
    (g.pc = "done" /\ g.outcome = "returned" /\ g.scored_by # "none") =>
        (g.model_used <=> g.scored_by = "model")

\* The part of C27 that does not depend on a failing predict or a reload:
\* a response to use_model = false reports model_used false.
C27_NoModelRequestedReportsFalse ==
    (g.pc = "done" /\ g.outcome = "returned" /\ g.scored_by # "none" /\ ~g.use_model) =>
        (~g.model_used /\ g.scored_by = "retrieval")

\* C28: under any interleaving of a user's checkout with that user's
\* add_to_cart requests no quantity is lost: every cart row checkout deleted
\* is an item of the order it created, with the quantity the row had when
\* it was deleted.
C28_CheckoutDeletesWhatItOrdered ==
    (race.pc = "done" /\ race.status = 200) =>
        \A d \in race.deleted :
            \E it \in orders[race.order_id].items :
                it.article_id = d.article_id /\ it.qty = d.qty

\* The part of C28 that holds under every interleaving: checkout deletes
\* rows of the articles it ordered only, and the order holds the
\* quantities checkout read.
C28_CheckoutDeletesOrderedArticles ==
    (race.pc = "done" /\ race.status = 200) =>
        /\ \A d \in race.deleted :
              \E it \in orders[race.order_id].items :
                  it.article_id = d.article_id /\ it.qty <= d.qty
        /\ \A it \in orders[race.order_id].items :
              \E c \in race.cart_items : c.article_id = it.article_id /\ c.qty = it.qty

\* C29: after any sequence of add_to_cart, remove_from_cart, clear_cart,
\* buy_now and checkout requests every cart row has qty >= 1 and every item
\* of an order has qty >= 1.
C29_QuantitiesAtLeastOne ==
    /\ \A c \in cart : c.qty >= 1
    /\ \A i \in 1..Len(orders) : \A it \in orders[i].items : it.qty >= 1

\* The part of C29 that holds for every request sequence: buy_now answers
\* a qty below 1 with 400, the item of an order it makes has qty >= 1, and
\* it leaves no cart row with a smaller qty than the row had, other than by
\* the qty bought.
C29_BuyNowQuantityAtLeastOne ==
    \A user_id \in StoreUsers, article_id \in BuyArticles, qty \in (0 - 1)..MaxQty :
        LET r == buy_now_call(user_id, article_id, qty, None, products, cart,
                              orders, purchases)
        IN /\ qty < 1 => (r.status = 400 /\ r.orders = orders /\ r.cart = cart)
           /\ Len(r.orders) > Len(orders) =>
                \A it \in r.orders[Len(r.orders)].items : it.qty = qty /\ qty >= 1
           /\ \A c \in r.cart \ cart : \E o \in cart :
                /\ o.article_id = c.article_id
                /\ c.qty = o.qty - qty
                /\ c.qty >= 1

\* C30: a reload_model request that fails (file missing, or the load
\* raises) leaves model and model_loaded_at unchanged and returns an error
\* status instead of raising; a scoring request reads the model of the last
\* successful load, and ranks by retrieval score when none was loaded.
C30_FailedReloadKeepsModel ==
    [][/\ (rl.pc = "idle" /\ rl'.pc = "ret") =>
            /\ rl'.ret \in {"error_missing", "error_raised"}
            /\ model' = model
            /\ model_loaded_at' = model_loaded_at
       /\ (g.pc = "check" /\ g'.pc # "check") =>
            /\ g'.vcheck = model
            /\ model = nloads
            /\ model = 0 => g'.scored_by = "retrieval"]_vars

\* a reload has just failed on a raising load while a model is loaded, and
\* a request that asked for the model is about to be scored
C30_Witness ==
    /\ rl.pc = "ret" /\ rl.ret = "error_raised"
    /\ model = 1 /\ model_loaded_at = 1
    /\ g.pc = "check" /\ g.use_model

\* a reload has just failed on a missing file in a process without model,
\* and a request that asked for the model is about to be scored
C30_WitnessRetrievalOnly ==
    /\ rl.pc = "ret" /\ rl.ret = "error_missing"
    /\ model = 0 /\ model_loaded_at = 0
    /\ g.pc = "check" /\ g.use_model

====
